---- MODULE Spec2Model ----
(***************************************************************************)
(* Kairos agent: the ReAct chat turn (services/orchestrator.py), the       *)
(* hybrid search it drives (services/hybrid_search.py) and the allergy     *)
(* guard every candidate list passes through (services/allergy_guard.py).  *)
(*                                                                         *)
(* Text is modelled as a sequence of character codes, so concatenation and *)
(* sorting of strings are the real operations.  Ratings are tenths of a    *)
(* point (45 is 4.5).  The truncated SHA-256 of the cache-key helpers is   *)
(* modelled as collision free: a key is the text that is hashed.           *)
(***************************************************************************)
EXTENDS Integers, Sequences, FiniteSets, TLC

\* ------------------------------------------------------------------------
\* Bounds of the model
\* ------------------------------------------------------------------------
MaxTurns == 2

MaxPatches == 1

\* ------------------------------------------------------------------------
\* Values
\* ------------------------------------------------------------------------
\* Python None / JSON null, one per type of the value it stands in for:
\* a string, a number, a list of strings, a text
NULL == "None"

NullNum == 0 - 1

NullList == <<"None">>

NullText == <<0 - 1>>

SEVERITY_LEVELS == <<"anaphylactic", "severe", "moderate", "intolerance">>

_MAX_ITERATIONS == 5

SearchLimit == 15

EvalTopN == 10

GuardTopN == 5

\* ------------------------------------------------------------------------
\* Sequence helpers
\* ------------------------------------------------------------------------
Range(s) == {s[i] : i \in DOMAIN s}

Take(s, n) == SubSeq(s, 1, IF n < Len(s) THEN n ELSE Len(s))

\* list.sort(key=...) : stable, ascending on an integer key
StableSort(s, keys) ==
    LET n == Len(s)
        pos(i) == Cardinality({j \in 1..n : keys[j] < keys[i] \/ (keys[j] = keys[i] /\ j < i)}) + 1
    IN  [p \in 1..n |-> s[CHOOSE i \in 1..n : pos(i) = p]]

Reverse(q) == [i \in 1..Len(q) |-> q[Len(q) + 1 - i]]

\* list.sort(key=..., reverse=True) : descending, equal keys keep their order
StableSortReverse(s, keys) == StableSort(s, [i \in DOMAIN keys |-> 0 - keys[i]])

\* list(dict.fromkeys(s)) and dict key order: first occurrence wins
Dedupe(s) ==
    LET first == {i \in DOMAIN s : \A j \in 1..(i - 1) : s[j] # s[i]}
        rank(i) == Cardinality({j \in first : j < i}) + 1
    IN  [p \in 1..Cardinality(first) |-> s[CHOOSE i \in first : rank(i) = p]]

FilterSeq(s, keep) ==
    LET idx == {i \in DOMAIN s : s[i] \in keep}
        rank(i) == Cardinality({j \in idx : j < i}) + 1
    IN  [p \in 1..Cardinality(idx) |-> s[CHOOSE i \in idx : rank(i) = p]]

\* lexicographic order on texts (sequences of character codes)
TextLess(a, b) ==
    \E k \in 1..(Len(b)) :
        /\ \A i \in 1..(k - 1) : i <= Len(a) /\ a[i] = b[i]
        /\ \/ k > Len(a) /\ k - 1 = Len(a)
           \/ k <= Len(a) /\ a[k] < b[k]

\* sorted(list of texts)
SortedTexts(s) ==
    LET n == Len(s)
        pos(i) == Cardinality({j \in 1..n : TextLess(s[j], s[i]) \/ (s[j] = s[i] /\ j < i)}) + 1
    IN  [p \in 1..n |-> s[CHOOSE i \in 1..n : pos(i) = p]]

RECURSIVE Join(_)
\* "".join(list of texts)
Join(s) == IF s = <<>> THEN <<>> ELSE Head(s) \o Join(Tail(s))

\* ------------------------------------------------------------------------
\* AllergyGuard (services/allergy_guard.py)
\* ------------------------------------------------------------------------
\* _SEVERITY_RANK = {level: i for i, level in enumerate(SEVERITY_LEVELS)}
_SEVERITY_RANK(level) == (CHOOSE i \in DOMAIN SEVERITY_LEVELS : SEVERITY_LEVELS[i] = level) - 1

KnownSeverity(level) == level \in Range(SEVERITY_LEVELS)

\* _SEVERITY_RANK.get(severity, 0)
SeverityRankGet(level) == IF KnownSeverity(level) THEN _SEVERITY_RANK(level) ELSE 0

\* severity_map.get(a, default) on a dict modelled as a function
DictGet(d, k, default) == IF k \in DOMAIN d THEN d[k] ELSE default

\* AllergyGuard.build_warning
build_warning(allergen, severity, confidence) ==
    LET sev == IF KnownSeverity(severity) THEN severity ELSE "severe"
    IN  [allergen        |-> allergen,
         severity        |-> sev,
         confidence      |-> confidence,
         confidence_note |-> (confidence # "high")]

\* faulty all_user_allergens that keeps an intolerance already listed as confirmed
AllUserAllergensNoSetdefault(user_allergies) ==
    LET confirmed    == Dedupe(DictGet(user_allergies, "confirmed", <<>>))
        intolerances == Dedupe(DictGet(user_allergies, "intolerances", <<>>))
        severity_map == DictGet(user_allergies, "severity", <<>>)
    IN  [i \in 1..Len(confirmed) |->
            <<confirmed[i], DictGet(severity_map, confirmed[i], "severe")>>]
        \o [i \in 1..Len(intolerances) |-> <<intolerances[i], "intolerance">>]

\* all_user_allergens of AllergyGuard.check: an insertion-ordered dict,
\* modelled as the sequence of its (allergen, severity) items
AllUserAllergens(user_allergies) ==
    LET confirmed_raw == DictGet(user_allergies, "confirmed", <<>>)
        intolerances  == DictGet(user_allergies, "intolerances", <<>>)
        severity_map  == DictGet(user_allergies, "severity", <<>>)
        confirmed == Dedupe(confirmed_raw)
        extra     == Dedupe(FilterSeq(intolerances, Range(intolerances) \ Range(confirmed)))
    IN  [i \in 1..Len(confirmed) |->
            <<confirmed[i], DictGet(severity_map, confirmed[i], "severe")>>]
        \o [i \in 1..Len(extra) |-> <<extra[i], "intolerance">>]

\* _annotate: one warning per allergen of the user that the restaurant lists
BuildWarnings(hits, confidence) ==
    [i \in 1..Len(hits) |-> build_warning(hits[i][1], hits[i][2], confidence)]

\* _annotate: warnings.sort(key=lambda w: _SEVERITY_RANK.get(w.severity, 0), reverse=True)
SortWarnings(built) ==
    StableSortReverse(built, [i \in 1..Len(built) |-> SeverityRankGet(built[i].severity)])

\* _annotate: restaurant.model_copy(update={allergy_safe, allergy_warnings})
WithWarnings(restaurant, warnings) ==
    [restaurant EXCEPT !.allergy_warnings = warnings, !.allergy_safe = (Len(warnings) = 0)]

\* AllergyGuard._annotate
_annotate(restaurant, user_allergens) ==
    WithWarnings(restaurant,
        SortWarnings(BuildWarnings(
            FilterSeq(user_allergens,
                      {it \in Range(user_allergens) : it[1] \in Range(restaurant.known_allergens)}),
            restaurant.allergen_confidence)))

\* max(iterable, default=0)
MaxOf(S) == IF S = {} THEN 0 ELSE CHOOSE m \in S : \A x \in S : x <= m

\* AllergyGuard._sort_key, the tuple (is_unsafe, worst_rank) as one integer
_sort_key(restaurant) ==
    IF restaurant.allergy_safe THEN 0
    ELSE 10 + MaxOf({SeverityRankGet(w.severity) : w \in Range(restaurant.allergy_warnings)})

\* faulty is_flagged that ignores the confidence of the warning
IsFlaggedAnyConfidence(annotated) ==
    \E w \in Range(annotated.allergy_warnings) : w.severity = "anaphylactic"

\* is_flagged of AllergyGuard.check
IsFlagged(annotated) ==
    \E w \in Range(annotated.allergy_warnings) :
        w.severity = "anaphylactic" /\ w.confidence = "high"

\* AllergyGuard.check raises when it iterates a null intolerances list
CheckRaises(user_allergies) == DictGet(user_allergies, "intolerances", <<>>) = NullList

\* check: safe_list.sort(key=self._sort_key)
SortSafe(safe_unsorted) ==
    StableSort(safe_unsorted, [i \in 1..Len(safe_unsorted) |-> _sort_key(safe_unsorted[i])])

\* faulty split that loses the flagged restaurants
PartitionDropFlagged(annotated) ==
    [safe_restaurants    |-> SortSafe(FilterSeq(annotated, {a \in Range(annotated) : ~IsFlagged(a)})),
     flagged_restaurants |-> <<>>,
     has_any_warnings    |-> \E i \in 1..Len(annotated) : Len(annotated[i].allergy_warnings) > 0]

\* check: the split of the annotated restaurants into the AllergyCheckResult
Partition(annotated) ==
    [safe_restaurants    |-> SortSafe(FilterSeq(annotated, {a \in Range(annotated) : ~IsFlagged(a)})),
     flagged_restaurants |-> FilterSeq(annotated, {a \in Range(annotated) : IsFlagged(a)}),
     has_any_warnings    |-> \E i \in 1..Len(annotated) : Len(annotated[i].allergy_warnings) > 0]

\* AllergyGuard.check, when it does not raise
check(restaurants, user_allergies) ==
    Partition([i \in 1..Len(restaurants) |->
                  _annotate(restaurants[i], AllUserAllergens(user_allergies))])

\* ------------------------------------------------------------------------
\* Restaurant store and hybrid search (services/hybrid_search.py)
\* ------------------------------------------------------------------------
\* text codes used by the model: area names and query texts
AreaKoramangala == <<11, 12>>

AreaIndiranagar == <<13>>

\* the restaurants table as first ingested, in the order the store returns rows
InitialRestaurants ==
    << [id |-> 1, area |-> AreaKoramangala, cuisine_types |-> <<"thai">>, price_tier |-> "$$",
        rating |-> 45, known_allergens |-> <<"peanuts">>, allergen_confidence |-> "high",
        is_active |-> TRUE],
       [id |-> 2, area |-> AreaKoramangala, cuisine_types |-> <<"thai", "indian">>, price_tier |-> "$",
        rating |-> 40, known_allergens |-> <<"peanuts">>, allergen_confidence |-> "medium",
        is_active |-> TRUE],
       [id |-> 3, area |-> AreaIndiranagar, cuisine_types |-> <<"indian">>, price_tier |-> "$$",
        rating |-> 42, known_allergens |-> <<>>, allergen_confidence |-> NULL,
        is_active |-> TRUE],
       [id |-> 4, area |-> AreaIndiranagar, cuisine_types |-> <<"italian">>, price_tier |-> "$$$",
        rating |-> 38, known_allergens |-> <<"dairy">>, allergen_confidence |-> "high",
        is_active |-> TRUE],
       [id |-> 5, area |-> NullText, cuisine_types |-> <<"indian">>, price_tier |-> NULL,
        rating |-> NullNum, known_allergens |-> <<"dairy", "peanuts">>, allergen_confidence |-> "low",
        is_active |-> TRUE],
       [id |-> 6, area |-> AreaKoramangala, cuisine_types |-> <<"italian">>, price_tier |-> "$$",
        rating |-> 42, known_allergens |-> <<>>, allergen_confidence |-> "high",
        is_active |-> TRUE] >>

\* _TIER_MAP / _VALID_TIERS: a requested tier is <<"int", n>> or <<"str", s>>
_TIER_MAP == [n \in 1..4 |-> <<"$", "$$", "$$$", "$$$$">>[n]]

_VALID_TIERS == {"$", "$$", "$$$", "$$$$"}

\* the price_tiers the query is restricted to (invalid entries are dropped)
PriceTiers(price_tiers_raw) ==
    {_TIER_MAP[t[2]] : t \in {x \in Range(price_tiers_raw) : x[1] = "int" /\ x[2] \in 1..4}}
    \cup {t[2] : t \in {x \in Range(price_tiers_raw) : x[1] = "str" /\ x[2] \in _VALID_TIERS}}

\* r.area LIKE '%area%'
AreaLike(row_area, area) ==
    /\ row_area # NullText
    /\ \E k \in 0..(Len(row_area) - Len(area)) :
           \A i \in 1..Len(area) : row_area[k + i] = area[i]

\* the WHERE clause of the restaurants query
WhereClause(r, sql_filters) ==
    LET price_tiers == PriceTiers(DictGet(sql_filters, "price_tiers", <<>>))
        area        == DictGet(sql_filters, "area", NullText)
        min_rating  == DictGet(sql_filters, "min_rating", NullNum)
    IN  /\ r.is_active
        /\ price_tiers # {} => (r.price_tier # NULL /\ r.price_tier \in price_tiers)
        /\ (area # NullText /\ area # <<>>) => AreaLike(r.area, area)
        /\ min_rating # NullNum => (r.rating # NullNum /\ r.rating >= min_rating)

\* step 3 of hybrid_search: the Python-side array filters
ArrayFilters(r, sql_filters) ==
    LET cuisine_types     == DictGet(sql_filters, "cuisine_types", <<>>)
        exclude_allergens == DictGet(sql_filters, "exclude_allergens", <<>>)
    IN  /\ cuisine_types # <<>> => \E c \in Range(cuisine_types) : c \in Range(r.cuisine_types)
        /\ exclude_allergens # <<>> =>
               ~ \E a \in Range(exclude_allergens) : a \in Range(r.known_allergens)

\* faulty index that gives an unranked id the best position
ChromaIndexUnrankedFirst(chroma_ranked_ids, id) ==
    IF id \in Range(chroma_ranked_ids)
    THEN (CHOOSE i \in DOMAIN chroma_ranked_ids : chroma_ranked_ids[i] = id) - 1
    ELSE 0

\* position of an id in the similarity ranking, len(ranking) when it is not ranked
ChromaIndex(chroma_ranked_ids, id) ==
    IF id \in Range(chroma_ranked_ids)
    THEN (CHOOSE i \in DOMAIN chroma_ranked_ids : chroma_ranked_ids[i] = id) - 1
    ELSE Len(chroma_ranked_ids)

\* the row of the store turned into a RestaurantResult
ToRestaurantResult(r) ==
    [id |-> r.id, area |-> r.area, cuisine_types |-> r.cuisine_types, price_tier |-> r.price_tier,
     rating |-> IF r.rating # NullNum /\ r.rating # 0 THEN r.rating ELSE NullNum,
     known_allergens |-> r.known_allergens,
     allergen_confidence |-> IF r.allergen_confidence = NULL THEN "low" ELSE r.allergen_confidence,
     allergy_safe |-> TRUE, allergy_warnings |-> <<>>, scores |-> <<>>]

\* hybrid_search, given the rows of the store and the similarity ranking
\* (empty when the embedding could not be built)
hybrid_search(rows, sql_filters, chroma_ranked_ids, limit) ==
    LET filtered == FilterSeq(rows, {r \in Range(rows) :
                                WhereClause(r, sql_filters) /\ ArrayFilters(r, sql_filters)})
        keys == [i \in 1..Len(filtered) |->
                    ChromaIndex(chroma_ranked_ids, filtered[i].id) * 1000
                    + (500 - (IF filtered[i].rating = NullNum THEN 0 ELSE filtered[i].rating))]
        ranked == Take(StableSort(filtered, keys), limit)
    IN  [i \in 1..Len(ranked) |-> ToRestaurantResult(ranked[i])]

\* ------------------------------------------------------------------------
\* Chat turn: state (services/orchestrator.py)
\* ------------------------------------------------------------------------
VARIABLES
    users,               \* users table: uid -> row (allergies, vibe_tags, dietary_flags)
    restaurants,         \* restaurants table, in the order the store returns rows
    settings,            \* the optional local-ML switches of config.py
    _cache_decomp,       \* planning cache: key -> plan
    _cache_search,       \* search cache: key -> serialised candidate list
    pc,                  \* position of the running orchestrate() generator
    uid,                 \* arguments of the running turn
    message,
    allergies,           \* locals of the running turn
    decomp_key,
    allergy_result,      \* what AllergyGuard.check returned, when it is run on its own
    iteration,
    planner_calls,       \* planner requests made by the running turn
    current_candidates,
    plan,
    final_payload,
    log,                 \* what the turn did since it last passed the loop head, in order:
                         \* events yielded, calls made, observations appended (the passes
                         \* before it yielded thinking events only)
    tasks,               \* background tasks created by the turn
    turns,               \* counters that bound the model
    patches,
    _cache_recommendations,  \* feed cache: key -> serialised RecommendationPayload
    today,               \* date.today() of the server
    clock,               \* datetime.now(): instants handed out so far
    calls                \* coroutines outside the chat turn, in the order they were
                         \* created: each a record of its function, arguments, position
                         \* and locals

vars == <<users, restaurants, settings, _cache_decomp, _cache_search, pc, uid, message,
          allergies, decomp_key, allergy_result, iteration, planner_calls, current_candidates, plan,
          final_payload, log, tasks, turns, patches,
          _cache_recommendations, today, clock, calls>>

stores == <<users, restaurants, settings>>

caches == <<_cache_decomp, _cache_search>>

turn_args == <<uid, message>>

turn_context == <<allergies, decomp_key, allergy_result>>

loop_state == <<iteration, planner_calls, current_candidates, plan, final_payload>>

counters == <<turns, patches>>

feed_state == <<_cache_recommendations, today, clock, calls>>

chat_turn == <<pc, turn_args, turn_context, loop_state, log, tasks, counters>>

\* ------------------------------------------------------------------------
\* Inputs of the model
\* ------------------------------------------------------------------------
Uids == {"u1", "u2", "ghost"}

Messages == {<<1>>}

\* the allergies objects a users row can hold (POST /users stores any object,
\* PATCH /users/{uid}/allergies stores lists and a severity dict)
NoAllergies == [confirmed |-> <<>>, intolerances |-> <<>>, severity |-> <<>>]

PeanutAnaphylactic ==
    [confirmed |-> <<"peanuts">>, intolerances |-> <<>>, severity |-> [peanuts |-> "anaphylactic"]]

PeanutAnaphylacticDairyIntolerant ==
    [confirmed |-> <<"peanuts">>, intolerances |-> <<"dairy">>, severity |-> [peanuts |-> "anaphylactic"]]

DairyUnratedPeanutModerate ==
    [confirmed |-> <<"dairy", "peanuts">>, intolerances |-> <<>>, severity |-> [peanuts |-> "moderate"]]

DairyNullIntolerances ==
    [confirmed |-> <<"dairy">>, intolerances |-> NullList, severity |-> [dairy |-> "anaphylactic"]]

PatchBodies == {DairyUnratedPeanutModerate}

InitialUsers ==
    [u \in {"u1", "u2"} |->
        [allergies     |-> IF u = "u1" THEN PeanutAnaphylacticDairyIntolerant
                           ELSE DairyNullIntolerances,
         vibe_tags     |-> << <<2>> >>,
         dietary_flags |-> <<>>]]

\* the sql_filters objects the planner can put in a plan
PlannerFilters ==
    { [exclude_allergens |-> <<"dairy">>, min_rating |-> 30],
      [exclude_allergens |-> NullList],
      [cuisine_types |-> <<"french">>, area |-> AreaKoramangala],
      [min_rating |-> 40] }

\* what call_gemma_json can return for the planner prompt: a JSON array, or an object
PlanSet ==
    { [is_dict |-> FALSE] }
    \cup { [is_dict |-> TRUE, tool |-> "search_restaurants", tool_input |-> [sql_filters |-> f]] :
             f \in PlannerFilters }
    \cup { [is_dict |-> TRUE, tool |-> "evaluate_candidates"],
           [is_dict |-> TRUE, tool |-> "ask_clarification", tool_input |-> <<>>],
           [is_dict |-> TRUE, tool |-> "final_response", tool_input |-> [ui_type |-> "map_view"]],
           [is_dict |-> TRUE, tool_input |-> <<>>] }

\* similarity rankings the vector index can answer with (empty: no embedding)
ChromaRankings == { <<>>, <<6, 3, 1>> }

\* ------------------------------------------------------------------------
\* Payloads and events
\* ------------------------------------------------------------------------
GenerativeUIPayload(ui_type, msg, rs, flagged, has_warnings) ==
    [ui_type |-> ui_type, message |-> msg, restaurants |-> rs,
     flagged_restaurants |-> flagged, has_allergy_warnings |-> has_warnings]

\* faulty text payload: a structured list payload with nothing in it
StructuredEmptyPayload(msg) == GenerativeUIPayload("restaurant_list", msg, <<>>, <<>>, FALSE)

TextPayload(msg) == GenerativeUIPayload("text", msg, <<>>, <<>>, FALSE)

_FALLBACK_PAYLOAD == TextPayload("trouble_right_now")

NoPayload == [ui_type |-> NULL]

Thinking(step) == [kind |-> "thinking", name |-> step]

Result(payload) == [kind |-> "result", name |-> "result", data |-> payload]

Call(callee, data) == [kind |-> "call", name |-> callee, data |-> data]

\* observations.append(...)
\* an exception raised by the named call
Raised(callee) == [kind |-> "raise", name |-> callee]

Observation(tool_name, data) == [kind |-> "observation", name |-> tool_name, data |-> data]

\* ------------------------------------------------------------------------
\* Cache keys
\* ------------------------------------------------------------------------
\* _decomp_cache_key: message + "".join(sorted(vibe_tags)) + "".join(sorted(dietary_flags))
_decomp_cache_key(msg, vibe_tags, dietary_flags) ==
    msg \o Join(SortedTexts(vibe_tags)) \o Join(SortedTexts(dietary_flags))

\* sorted(list of allergen or cuisine names): the model orders names by this table
NameOrder == <<"dairy", "french", "indian", "italian", "peanuts", "thai">>

NameRank(n) == CHOOSE i \in DOMAIN NameOrder : NameOrder[i] = n

SortedNames(s) == StableSort(s, [i \in DOMAIN s |-> NameRank(s[i])])

ListFields == {"exclude_allergens", "cuisine_types"}

\* _search_cache_key: list values sorted, then the dict dumped with sorted keys,
\* then the query text appended
_search_cache_key(sql_filters, vector_query) ==
    << [k \in DOMAIN sql_filters |->
           IF k \in ListFields THEN SortedNames(sql_filters[k]) ELSE sql_filters[k]],
       vector_query >>

\* json.dumps([r.model_dump() for r in results]) and its inverse
\* [RestaurantResult.model_validate(r) for r in json.loads(cached)]
model_dump_json(results) ==
    [i \in DOMAIN results |->
        [id |-> results[i].id, area |-> results[i].area,
         cuisine_types |-> results[i].cuisine_types, price_tier |-> results[i].price_tier,
         rating |-> results[i].rating, known_allergens |-> results[i].known_allergens,
         allergen_confidence |-> results[i].allergen_confidence,
         allergy_safe |-> results[i].allergy_safe,
         allergy_warnings |-> results[i].allergy_warnings, scores |-> results[i].scores]]

model_validate_json(raw) ==
    [i \in DOMAIN raw |->
        [id |-> raw[i].id, area |-> raw[i].area,
         cuisine_types |-> raw[i].cuisine_types, price_tier |-> raw[i].price_tier,
         rating |-> raw[i].rating, known_allergens |-> raw[i].known_allergens,
         allergen_confidence |-> raw[i].allergen_confidence,
         allergy_safe |-> raw[i].allergy_safe,
         allergy_warnings |-> raw[i].allergy_warnings, scores |-> raw[i].scores]]

\* ------------------------------------------------------------------------
\* Dict helpers
\* ------------------------------------------------------------------------
DictPut(d, k, v) == [x \in (DOMAIN d) \cup {k} |-> IF x = k THEN v ELSE d[x]]

DictDel(d, k) == [x \in (DOMAIN d) \ {k} |-> d[x]]

\* list(set(...)): the elements once each, in an order the runtime picks
Enumerations(S) == {q \in [1..Cardinality(S) -> S] : Range(q) = S}

\* ------------------------------------------------------------------------
\* Anaphylactic override, evaluation, guard + payload
\* ------------------------------------------------------------------------
\* anaphylactic = [a for a in confirmed if severity_map.get(a) == "anaphylactic"]
Anaphylactic(user_allergies) ==
    LET confirmed == DictGet(user_allergies, "confirmed", <<>>)
        severity_map == DictGet(user_allergies, "severity", <<>>)
    IN  FilterSeq(confirmed, {a \in Range(confirmed) : DictGet(severity_map, a, NULL) = "anaphylactic"})

\* existing + anaphylactic raises TypeError when the planner sent null
OverrideRaises(sql_filters) == DictGet(sql_filters, "exclude_allergens", <<>>) = NullList

\* faulty override that passes the planner's list through
_apply_anaphylactic_override_PlannerOnly(sql_filters, user_allergies) ==
    { DictPut(sql_filters, "exclude_allergens", l) :
         l \in Enumerations(Range(DictGet(sql_filters, "exclude_allergens", <<>>))) }

\* faulty override that fills exclude_allergens only when the planner sent none
_apply_anaphylactic_override_WhenAbsent(sql_filters, user_allergies) ==
    IF "exclude_allergens" \in DOMAIN sql_filters
    THEN { sql_filters }
    ELSE { DictPut(sql_filters, "exclude_allergens", l) :
              l \in Enumerations(Range(Anaphylactic(user_allergies))) }

\* _apply_anaphylactic_override: the dicts it can return, one per order of list(set(...))
_apply_anaphylactic_override(sql_filters, user_allergies) ==
    LET existing == DictGet(sql_filters, "exclude_allergens", <<>>)
    IN  { DictPut(sql_filters, "exclude_allergens", l) :
             l \in Enumerations(Range(existing \o Anaphylactic(user_allergies))) }

\* RadarScores(romance=float(s.get("romance", 0)), ...)
RadarScores(s) ==
    [romance |-> DictGet(s, "romance", 0), noise_level |-> DictGet(s, "noise_level", 0),
     food_quality |-> DictGet(s, "food_quality", 0), vegan_options |-> DictGet(s, "vegan_options", 0),
     value_for_money |-> DictGet(s, "value_for_money", 0)]

\* _composite, times four
_composite(r) ==
    IF r.scores = <<>> THEN 0
    ELSE r.scores[1].romance + r.scores[1].food_quality
         + r.scores[1].value_for_money + r.scores[1].vegan_options

\* faulty evaluation whose descending sort reverses candidates of equal score
_tool_evaluate_candidates_unstable(candidates, scores_map) ==
    Reverse(StableSort(Take(candidates, EvalTopN),
                       [i \in DOMAIN Take(candidates, EvalTopN) |-> 0]))

\* _tool_evaluate_candidates, given the scores_map built from the model's answer
\* (empty when the scoring call failed)
_tool_evaluate_candidates(candidates, scores_map) ==
    LET top_candidates == Take(candidates, EvalTopN)
        scored == [i \in DOMAIN top_candidates |->
                     [top_candidates[i] EXCEPT
                         !.scores = << RadarScores(DictGet(scores_map, top_candidates[i].id, <<>>)) >>]]
    IN  StableSortReverse(scored, [i \in DOMAIN scored |-> _composite(scored[i])])

\* answers of the scoring call: GemmaError, a list whose items make int(item["id"])
\* raise, or a well-formed list (here: one that scores the last candidate only)
ScoringOutcomes(candidates) ==
    { [outcome |-> "GemmaError", scores_map |-> <<>>],
      [outcome |-> "malformed", scores_map |-> <<>>],
      [outcome |-> "scored",
       scores_map |-> [x \in {candidates[Len(candidates)].id} |->
                          [romance |-> 8, food_quality |-> 6]]] }

\* _build_response_message: which of its texts it returns
_build_response_message(result) ==
    LET total == Len(result.safe_restaurants) + Len(result.flagged_restaurants)
    IN  IF total = 0 THEN "could_not_find"
        ELSE IF result.flagged_restaurants # <<>> THEN "found_with_high_risk_note"
        ELSE IF result.has_any_warnings THEN "found_with_allergy_notes"
        ELSE "found"

valid_ui_types == {"restaurant_list", "radar_comparison", "map_view", "text"}

\* _run_allergy_guard_and_build_payload: the payload built from the guard's result
BuildPayload(result, ui_type) ==
    GenerativeUIPayload(IF ui_type \in valid_ui_types THEN ui_type ELSE "restaurant_list",
                        _build_response_message(result),
                        result.safe_restaurants,
                        result.flagged_restaurants,
                        result.has_any_warnings)

\* the guard call and the payload that follows it, as log entries
GuardTrace(checked, user_allergies, ui_type, result) ==
    << Call("AllergyGuard.check",
            [restaurants    |-> [i \in DOMAIN checked |-> checked[i].id],
             user_allergies |-> user_allergies,
             raised         |-> FALSE,
             returned       |-> result.safe_restaurants \o result.flagged_restaurants]),
       Result(BuildPayload(result, ui_type)) >>

\* faulty except branch that shows the unchecked candidates
GuardRaisedTraceFailOpen(checked, user_allergies) ==
    << Call("AllergyGuard.check",
            [restaurants    |-> [i \in DOMAIN checked |-> checked[i].id],
             user_allergies |-> user_allergies,
             raised         |-> TRUE,
             returned       |-> <<>>]),
       Result(GenerativeUIPayload("restaurant_list", "found", checked, <<>>, FALSE)) >>

\* the same when the guard raises: the except branch builds the payload
GuardRaisedTrace(checked, user_allergies) ==
    << Call("AllergyGuard.check",
            [restaurants    |-> [i \in DOMAIN checked |-> checked[i].id],
             user_allergies |-> user_allergies,
             raised         |-> TRUE,
             returned       |-> <<>>]),
       Result(GenerativeUIPayload("text", "safety_check_error", <<>>, <<>>, FALSE)) >>

\* faulty payload builder that never calls the guard
_build_payload_without_guard(candidates, user_allergies, ui_type) ==
    << Result(GenerativeUIPayload("restaurant_list", "found",
                                  Take(candidates, GuardTopN), <<>>, FALSE)) >>

\* _run_allergy_guard_and_build_payload, followed by the yield of its payload
_run_allergy_guard_and_build_payload(candidates, user_allergies, ui_type) ==
    IF CheckRaises(user_allergies)
    THEN GuardRaisedTrace(Take(candidates, GuardTopN), user_allergies)
    ELSE GuardTrace(Take(candidates, GuardTopN), user_allergies, ui_type,
                    check(Take(candidates, GuardTopN), user_allergies))

\* what every candidate-bearing exit does, in order: the checking_allergies
\* event, the guard call, the result event
CheckAndEmit(candidates, user_allergies, ui_type) ==
    << Thinking("checking_allergies") >>
    \o _run_allergy_guard_and_build_payload(candidates, user_allergies, ui_type)

PayloadOf(entries) == entries[Len(entries)].data

\* ------------------------------------------------------------------------
\* Initial state
\* ------------------------------------------------------------------------
\* no chat turn is running
NoTurn ==
    /\ pc = "idle"
    /\ uid = NULL
    /\ message = <<>>
    /\ allergies = <<>>
    /\ decomp_key = <<>>
    /\ allergy_result = NULL
    /\ iteration = 0
    /\ planner_calls = 0
    /\ current_candidates = <<>>
    /\ plan = <<>>
    /\ final_payload = NoPayload
    /\ log = <<>>
    /\ tasks = <<>>
    /\ turns = 0
    /\ patches = 0

\* nothing of the recommendation feed has run: an empty feed cache, no coroutine
NoFeed ==
    /\ _cache_recommendations = <<>>
    /\ today = 1
    /\ clock = 0
    /\ calls = <<>>

Init ==
    /\ users = InitialUsers
    /\ restaurants = InitialRestaurants
    /\ settings \in { [use_local_classifier |-> b, use_local_reranker |-> b] : b \in BOOLEAN }
    /\ _cache_decomp = <<>>
    /\ _cache_search = <<>>
    /\ pc = "idle"
    /\ uid = NULL
    /\ message = <<>>
    /\ allergies = <<>>
    /\ decomp_key = <<>>
    /\ allergy_result = NULL
    /\ iteration = 0
    /\ planner_calls = 0
    /\ current_candidates = <<>>
    /\ plan = <<>>
    /\ final_payload = NoPayload
    /\ log = <<>>
    /\ tasks = <<>>
    /\ turns = 0
    /\ patches = 0
    /\ NoFeed

\* ------------------------------------------------------------------------
\* orchestrate()
\* ------------------------------------------------------------------------
\* POST /chat: the generator starts and yields the fetching_context event
StartTurn(u, m) ==
    /\ pc = "idle"
    /\ turns < MaxTurns
    /\ uid' = u
    /\ message' = m
    /\ log' = << Thinking("fetching_context") >>
    /\ pc' = "fetch_context"
    /\ UNCHANGED <<stores, feed_state, caches, turn_context, loop_state, tasks, counters>>

\* Step 1: the users query; it can raise, find no row, or return the row
FetchContext ==
    /\ pc = "fetch_context"
    /\ \/ /\ pc' = "raised"
          /\ log' = Append(log, Raised("users_query"))
          /\ UNCHANGED turn_context
       \/ /\ uid \notin DOMAIN users
          /\ log' = log \o << Call("users_query", "no_row"), Result(_FALLBACK_PAYLOAD) >>
          /\ pc' = "returned"
          /\ UNCHANGED turn_context
       \/ /\ uid \in DOMAIN users
          /\ allergies' = users[uid].allergies
          /\ decomp_key' = _decomp_cache_key(message, users[uid].vibe_tags, users[uid].dietary_flags)
          /\ log' = Append(log, Call("users_query", "row"))
          /\ UNCHANGED allergy_result
          /\ pc' = IF settings.use_local_classifier THEN "classify" ELSE "loop"
    /\ UNCHANGED <<stores, feed_state, caches, turn_args, loop_state, tasks, counters>>

\* Optional local intent classifier
ClassifyIntent ==
    /\ pc = "classify"
    /\ \E outcome \in {"casual_chat", "other", "raised"} :
          IF outcome = "casual_chat"
          THEN /\ log' = log \o << Call("classify_intent", outcome), Result(TextPayload("i_am_kairos")) >>
               /\ pc' = "returned"
          ELSE /\ log' = Append(log, Call("classify_intent", outcome))
               /\ pc' = "loop"
    /\ UNCHANGED <<stores, feed_state, caches, turn_args, turn_context, loop_state, tasks, counters>>

\* allergens_flagged: the allergens of the payload's warnings, first occurrence order
AllergensFlagged(payload) ==
    LET shown == payload.restaurants \o payload.flagged_restaurants
        RECURSIVE collect(_)
        collect(i) == IF i > Len(shown) THEN <<>>
                      ELSE [w \in DOMAIN shown[i].allergy_warnings |->
                               shown[i].allergy_warnings[w].allergen] \o collect(i + 1)
    IN  Dedupe(collect(1))

\* the code after the loop: the audit write and the profiler become detached tasks
BackgroundTasks(payload_or_none) ==
    LET payload == IF payload_or_none = NoPayload THEN _FALLBACK_PAYLOAD ELSE payload_or_none
        shown == payload.restaurants \o payload.flagged_restaurants
    IN  << [task |-> "_save_interaction", uid |-> uid, message |-> message,
            payload |-> payload,
            restaurant_ids |-> [i \in DOMAIN shown |-> shown[i].id],
            allergens_flagged |-> AllergensFlagged(payload),
            has_warnings |-> payload.has_allergy_warnings],
           [task |-> "_run_profiler", uid |-> uid, message |-> message] >>

\* ways one pass through the loop body ends ---------------------------------
\* yield result; break -- then the background tasks are created
Break(done_log, candidates, p) ==
    /\ log' = done_log
    /\ current_candidates' = candidates
    /\ final_payload' = PayloadOf(done_log)
    /\ tasks' = BackgroundTasks(PayloadOf(done_log))
    /\ plan' = p
    /\ pc' = "done"
    /\ UNCHANGED iteration

\* yield result; return -- nothing after the loop runs
Return(done_log, p) ==
    /\ log' = done_log
    /\ plan' = p
    /\ pc' = "returned"
    /\ UNCHANGED <<iteration, current_candidates, final_payload, tasks>>

\* an exception raised by callee leaves the generator
Raise(done_log, callee, candidates, p) ==
    /\ log' = Append(done_log, Raised(callee))
    /\ current_candidates' = candidates
    /\ plan' = p
    /\ pc' = "raised"
    /\ UNCHANGED <<iteration, final_payload, tasks>>

\* iteration += 1 and back to the head of the loop
Continue(done_log, candidates, p) ==
    /\ log' = done_log
    /\ current_candidates' = candidates
    /\ iteration' = iteration + 1
    /\ plan' = p
    /\ pc' = "loop"
    /\ UNCHANGED <<final_payload, tasks>>

\* the log of a pass starts empty, except that the first pass continues the
\* log of the steps before the loop
PassLog == IF iteration = 0 THEN log ELSE <<>>

\* Hard cap, checked before the planner call
CeilingReached ==
    /\ pc = "loop"
    /\ iteration >= _MAX_ITERATIONS
    /\ Break(PassLog \o (IF current_candidates = <<>>
                         THEN << Result(TextPayload("could_not_find_broaden")) >>
                         ELSE CheckAndEmit(current_candidates, allergies, "restaurant_list")),
             current_candidates, plan)
    /\ UNCHANGED <<stores, feed_state, caches, turn_args, turn_context, planner_calls, counters>>

\* faulty lookup that consults the planning cache in every iteration
DecompHitAnyIteration == decomp_key \in DOMAIN _cache_decomp

DecompHit == iteration = 0 /\ decomp_key \in DOMAIN _cache_decomp

\* the planner step when it yields a plan p: served from the planning cache on the
\* first iteration, else the planner's answer, stored when it is the first iteration
Planned(p) ==
    /\ pc = "loop"
    /\ iteration < _MAX_ITERATIONS
    /\ IF DecompHit
       THEN /\ p = _cache_decomp[decomp_key]
            /\ UNCHANGED <<_cache_decomp, planner_calls>>
       ELSE /\ p \in PlanSet
            /\ planner_calls' = planner_calls + 1
            /\ _cache_decomp' = IF iteration = 0 THEN DictPut(_cache_decomp, decomp_key, p)
                                ELSE _cache_decomp

PlannedLog == Append(PassLog, IF DecompHit THEN Call("_cache_decomp.get", "hit")
                                           ELSE Call("planner", "answered"))

\* call_gemma_json raises GemmaError
PlannerFails ==
    /\ pc = "loop"
    /\ iteration < _MAX_ITERATIONS
    /\ ~ DecompHit
    /\ planner_calls' = planner_calls + 1
    /\ Return(PassLog \o << Call("planner", "GemmaError"), Result(_FALLBACK_PAYLOAD) >>, plan)
    /\ UNCHANGED <<stores, feed_state, caches, turn_args, turn_context, counters>>

\* if not isinstance(plan, dict)
PlanNotDict ==
    /\ \E p \in PlanSet :
          /\ Planned(p)
          /\ ~ p.is_dict
          /\ Return(Append(PlannedLog, Result(_FALLBACK_PAYLOAD)), p)
    /\ UNCHANGED <<stores, feed_state, _cache_search, turn_args, turn_context, counters>>

ToolOf(p) == DictGet(p, "tool", "")

ToolInputOf(p) == DictGet(p, "tool_input", <<>>)

Planning == [kind |-> "thinking", name |-> "planning", iteration |-> iteration + 1]

Searching(sql_filters) == [kind |-> "thinking", name |-> "searching", filters |-> sql_filters]

PlanningLog == Append(PlannedLog, Planning)

\* what rerank(message, results, top_k=10) can leave in results: unchanged when it
\* raises, else the ten best in the order of the cross-encoder scores
Reranked(results) ==
    IF settings.use_local_reranker /\ results # <<>>
    THEN { results, Take(Reverse(results), EvalTopN) }
    ELSE { results }

\* the scoring request of _tool_evaluate_candidates, with the candidates it was given
ScoringCall(candidates, o) ==
    Call("scoring", [outcome |-> o.outcome,
                     candidates |-> [i \in DOMAIN candidates |-> candidates[i].id]])

\* faulty loop that hands a non-empty search result back to the planner
AfterSearchContinues(done_log, results, cache_hit, p) ==
    Continue(Append(done_log, Observation("search_restaurants",
                                          [cache_hit |-> cache_hit, found |-> Len(results)])),
             results, p)

\* the search_restaurants branch once results are known: zero results go round the
\* loop again, anything else is scored, allergy-checked and delivered at once
AfterSearch(done_log, results, cache_hit, p) ==
    LET found_log == Append(done_log,
            Observation("search_restaurants", [cache_hit |-> cache_hit, found |-> Len(results)]))
    IN  IF results = <<>>
        THEN Continue(Append(found_log, Observation("search_restaurants", "broaden")), results, p)
        ELSE \E o \in ScoringOutcomes(results) :
                LET scoring_log == found_log \o << Thinking("evaluating"), ScoringCall(results, o) >>
                    scored == _tool_evaluate_candidates(results, o.scores_map)
                IN  IF o.outcome = "malformed"
                    THEN Raise(scoring_log, "_tool_evaluate_candidates", results, p)
                    ELSE Break(scoring_log \o CheckAndEmit(scored, allergies, "restaurant_list"),
                               scored, p)

\* what the index and the store can do to one uncached search: the query of either
\* raises, or the index answers with a ranking (none when the embedding failed)
SearchOutcomes ==
    { [raised |-> TRUE, ranked |-> <<>>] }
    \cup { [raised |-> FALSE, ranked |-> c] : c \in ChromaRankings }

\* faulty store that also keeps an empty result
StoreSearchAlways(cache, key, found) == DictPut(cache, key, model_dump_json(found))

\* _tool_search_restaurants: if results: _cache_search[key] = json.dumps(...)
StoreSearch(cache, key, found) ==
    IF found # <<>> THEN DictPut(cache, key, model_dump_json(found)) ELSE cache

\* _tool_search_restaurants returns (results, was_cache_hit) for the key it looked up
SearchReturned(key, results, cache_hit) ==
    [kind |-> "return", name |-> "_tool_search_restaurants", key |-> key,
     data |-> results, cache_hit |-> cache_hit]

\* tool == "search_restaurants", with _tool_search_restaurants inlined
ToolSearchRestaurants ==
    /\ \E p \in PlanSet :
          /\ Planned(p)
          /\ p.is_dict
          /\ ToolOf(p) = "search_restaurants"
          /\ LET planner_filters == DictGet(ToolInputOf(p), "sql_filters", <<>>)
                 vector_query == message
             IN  IF OverrideRaises(planner_filters)
                 THEN /\ Raise(PlanningLog, "_apply_anaphylactic_override", current_candidates, p)
                      /\ UNCHANGED _cache_search
                 ELSE \E sql_filters \in _apply_anaphylactic_override(planner_filters, allergies) :
                         LET key == _search_cache_key(sql_filters, vector_query)
                             lookup_log == PlanningLog \o
                                 << Searching(sql_filters), Call("_cache_search.get", sql_filters) >>
                         IN  IF key \in DOMAIN _cache_search
                             THEN /\ \E results \in Reranked(model_validate_json(_cache_search[key])) :
                                        AfterSearch(
                                            Append(lookup_log,
                                                   SearchReturned(key,
                                                       model_validate_json(_cache_search[key]), TRUE)),
                                            results, TRUE, p)
                                  /\ UNCHANGED _cache_search
                             ELSE \E o \in SearchOutcomes :
                                     LET found == hybrid_search(restaurants, sql_filters, o.ranked, SearchLimit)
                                         search_log == Append(lookup_log, Call("hybrid_search", sql_filters))
                                     IN  IF o.raised
                                         THEN /\ Raise(search_log, "hybrid_search", current_candidates, p)
                                              /\ UNCHANGED _cache_search
                                         ELSE /\ _cache_search' = StoreSearch(_cache_search, key, found)
                                              /\ \E results \in Reranked(found) :
                                                    AfterSearch(
                                                        Append(search_log,
                                                               SearchReturned(key, found, FALSE)),
                                                        results, FALSE, p)
    /\ UNCHANGED <<stores, feed_state, turn_args, turn_context, counters>>

\* tool == "evaluate_candidates"
ToolEvaluateCandidates ==
    /\ \E p \in PlanSet :
          /\ Planned(p)
          /\ p.is_dict
          /\ ToolOf(p) = "evaluate_candidates"
          /\ IF current_candidates = <<>>
             THEN Continue(Append(PlanningLog, Observation("evaluate_candidates", "skipped")),
                           current_candidates, p)
             ELSE \E o \in ScoringOutcomes(current_candidates) :
                     LET scoring_log == PlanningLog \o
                             << Thinking("evaluating"), ScoringCall(current_candidates, o) >>
                         scored == _tool_evaluate_candidates(current_candidates, o.scores_map)
                     IN  IF o.outcome = "malformed"
                         THEN Raise(scoring_log, "_tool_evaluate_candidates", current_candidates, p)
                         ELSE Continue(Append(scoring_log, Observation("evaluate_candidates", "scored")),
                                       scored, p)
    /\ UNCHANGED <<stores, feed_state, _cache_search, turn_args, turn_context, counters>>

\* tool == "ask_clarification"
ToolAskClarification ==
    /\ \E p \in PlanSet :
          /\ Planned(p)
          /\ p.is_dict
          /\ ToolOf(p) = "ask_clarification"
          /\ Break(Append(PlanningLog,
                          Result(TextPayload(DictGet(ToolInputOf(p), "question", "please_clarify")))),
                   current_candidates, p)
    /\ UNCHANGED <<stores, feed_state, _cache_search, turn_args, turn_context, counters>>

\* tool == "final_response"
ToolFinalResponse ==
    /\ \E p \in PlanSet :
          /\ Planned(p)
          /\ p.is_dict
          /\ ToolOf(p) = "final_response"
          /\ Break(PlanningLog \o
                     (IF current_candidates = <<>>
                      THEN << Result(TextPayload("could_not_find_broaden")) >>
                      ELSE CheckAndEmit(current_candidates, allergies,
                                        DictGet(ToolInputOf(p), "ui_type", "restaurant_list"))),
                   current_candidates, p)
    /\ UNCHANGED <<stores, feed_state, _cache_search, turn_args, turn_context, counters>>

KnownTools == {"search_restaurants", "evaluate_candidates", "ask_clarification", "final_response"}

\* the else branch of the dispatch
UnknownTool ==
    /\ \E p \in PlanSet :
          /\ Planned(p)
          /\ p.is_dict
          /\ ToolOf(p) \notin KnownTools
          /\ Break(PlanningLog \o
                     (IF current_candidates = <<>>
                      THEN << Result(_FALLBACK_PAYLOAD) >>
                      ELSE CheckAndEmit(current_candidates, allergies, "restaurant_list")),
                   current_candidates, p)
    /\ UNCHANGED <<stores, feed_state, _cache_search, turn_args, turn_context, counters>>

Terminal == {"done", "returned", "raised"}

\* the response stream is closed and the detached tasks run; the next request
\* starts from fresh locals
EndTurn ==
    /\ pc \in Terminal
    /\ pc' = "idle"
    /\ uid' = NULL
    /\ message' = <<>>
    /\ allergies' = <<>>
    /\ decomp_key' = <<>>
    /\ UNCHANGED allergy_result
    /\ iteration' = 0
    /\ planner_calls' = 0
    /\ current_candidates' = <<>>
    /\ plan' = <<>>
    /\ final_payload' = NoPayload
    /\ log' = <<>>
    /\ tasks' = <<>>
    /\ turns' = turns + 1
    /\ UNCHANGED <<stores, feed_state, caches, patches>>

\* ------------------------------------------------------------------------
\* Environment
\* ------------------------------------------------------------------------
\* the entries of ALLERGEN_SYNONYMS for the names the model uses
ALLERGEN_SYNONYMS == [milk |-> "dairy", groundnut |-> "peanuts"]

\* _normalise_allergen; the names of the model are lower case and stripped already
_normalise_allergen(a) == DictGet(ALLERGEN_SYNONYMS, a, a)

\* _build_allergy_flags, for an allergies object with both lists
_build_allergy_flags(new_allergies) ==
    Dedupe([i \in DOMAIN (new_allergies.confirmed \o new_allergies.intolerances) |->
               _normalise_allergen((new_allergies.confirmed \o new_allergies.intolerances)[i])])

\* the UPDATE of patch_user_allergies, on the columns the row of the model has
Patched(row, body, now) ==
    [k \in DOMAIN row |->
        CASE k = "allergies"     -> body
          [] k = "allergy_flags" -> _build_allergy_flags(body)
          [] k = "updated_at"    -> now
          [] OTHER               -> row[k]]

\* PATCH /users/{uid}/allergies: full replacement of the stored profile
\* (a turn reads the profile once, in FetchContext, so a PATCH that lands while
\* a turn runs acts on that turn like one that lands after it)
patch_user_allergies(u, body) ==
    /\ pc = "idle"
    /\ patches < MaxPatches
    /\ u \in DOMAIN users
    /\ users' = [users EXCEPT ![u] = Patched(@, body, clock)]
    /\ patches' = patches + 1
    /\ UNCHANGED <<restaurants, settings, feed_state, caches, pc, turn_args, turn_context, loop_state, log, tasks, turns>>

\* TTLCache drops an entry whose time is up
ExpireDecomp ==
    /\ pc = "idle"
    /\ \E k \in DOMAIN _cache_decomp : _cache_decomp' = DictDel(_cache_decomp, k)
    /\ UNCHANGED <<stores, feed_state, _cache_search, pc, turn_args, turn_context, loop_state, log, tasks, counters>>

ExpireSearch ==
    /\ pc = "idle"
    /\ \E k \in DOMAIN _cache_search : _cache_search' = DictDel(_cache_search, k)
    /\ UNCHANGED <<stores, feed_state, _cache_decomp, pc, turn_args, turn_context, loop_state, log, tasks, counters>>

Next ==
    \/ \E u \in Uids, m \in Messages : StartTurn(u, m)
    \/ FetchContext
    \/ ClassifyIntent
    \/ CeilingReached
    \/ PlannerFails
    \/ PlanNotDict
    \/ ToolSearchRestaurants
    \/ ToolEvaluateCandidates
    \/ ToolAskClarification
    \/ ToolFinalResponse
    \/ UnknownTool
    \/ EndTurn
    \/ \E u \in Uids, body \in PatchBodies : patch_user_allergies(u, body)
    \/ ExpireDecomp
    \/ ExpireSearch

Spec == Init /\ [][Next]_vars

\* ------------------------------------------------------------------------
\* AllergyGuard.check on its own
\* ------------------------------------------------------------------------
MaxGuardInput == 2

PeanutIntoleranceMarkedAnaphylactic ==
    [confirmed |-> <<>>, intolerances |-> <<"peanuts">>, severity |-> [peanuts |-> "anaphylactic"]]

\* peanuts are listed twice as confirmed and once more as an intolerance
PeanutConfirmedAndIntolerant ==
    [confirmed |-> <<"peanuts", "peanuts">>, intolerances |-> <<"peanuts", "dairy">>,
     severity |-> [peanuts |-> "moderate"]]

GuardProfiles ==
    { NoAllergies, PeanutAnaphylactic, PeanutAnaphylacticDairyIntolerant,
      DairyUnratedPeanutModerate, DairyNullIntolerances, PeanutIntoleranceMarkedAnaphylactic,
      PeanutConfirmedAndIntolerant }

\* candidates that differ in nothing but the allergens listed and the confidence
GuardCandidates ==
    { [ToRestaurantResult(InitialRestaurants[1]) EXCEPT !.known_allergens = k,
                                                        !.allergen_confidence = c] :
         k \in { <<>>, <<"peanuts">>, <<"dairy">>, <<"dairy", "peanuts">> },
         c \in {"high", "medium"} }

\* the restaurants argument of check: candidates with distinct ids, numbered in list order
GuardInputs ==
    { [i \in 1..Len(q) |-> [q[i] EXCEPT !.id = i]] :
         q \in UNION { [1..n -> GuardCandidates] : n \in 0..MaxGuardInput } }

InitGuard ==
    /\ users = InitialUsers
    /\ restaurants = InitialRestaurants
    /\ settings = [use_local_classifier |-> FALSE, use_local_reranker |-> FALSE]
    /\ _cache_decomp = <<>>
    /\ _cache_search = <<>>
    /\ pc = "guard_called"
    /\ uid = NULL
    /\ message = <<>>
    /\ allergies \in GuardProfiles
    /\ decomp_key = <<>>
    /\ allergy_result = NULL
    /\ iteration = 0
    /\ planner_calls = 0
    /\ current_candidates \in GuardInputs
    /\ plan = <<>>
    /\ final_payload = NoPayload
    /\ log = <<>>
    /\ tasks = <<>>
    /\ turns = 0
    /\ patches = 0
    /\ NoFeed

\* check(restaurants, user_allergies) returns its AllergyCheckResult
GuardReturns ==
    /\ pc = "guard_called"
    /\ ~ CheckRaises(allergies)
    /\ allergy_result' = check(current_candidates, allergies)
    /\ pc' = "guard_returned"
    /\ UNCHANGED <<stores, feed_state, caches, turn_args, allergies, decomp_key, loop_state, log, tasks, counters>>

\* check(restaurants, user_allergies) raises
GuardRaises ==
    /\ pc = "guard_called"
    /\ CheckRaises(allergies)
    /\ pc' = "guard_raised"
    /\ UNCHANGED <<stores, feed_state, caches, turn_args, turn_context, loop_state, log, tasks, counters>>

NextGuard == GuardReturns \/ GuardRaises

SpecGuard == InitGuard /\ [][NextGuard]_vars

\* ------------------------------------------------------------------------
\* FitScorer (services/fit_scorer.py)
\* ------------------------------------------------------------------------
\* JSON values of the untyped dicts (preferences, meta): a list of strings, a
\* string, or null
JsonList(seq) == [t |-> "list", v |-> seq]

JsonStr(str) == [t |-> "str", v |-> str]

JsonNull == [t |-> "null"]

\* str.lower() on the names the model uses
Lower(str) ==
    CASE str = "Thai"    -> "thai"
      [] str = "Quiet"   -> "quiet"
      [] OTHER           -> str

\* str.title() on the names the model uses
Title(str) ==
    CASE str = "thai"    -> "Thai"
      [] str = "indian"  -> "Indian"
      [] str = "italian" -> "Italian"
      [] str = "vegan"   -> "Vegan"
      [] str = "halal"   -> "Halal"
      [] str = "jain"    -> "Jain"
      [] str = "vegetarian" -> "Vegetarian"
      [] OTHER           -> str

\* {x.lower() for x in (seq or [])}
LowerSet(seq) == {Lower(seq[i]) : i \in DOMAIN seq}

\* the orders in which a set of strings can be iterated (the order depends on the
\* string hashes of the process)
Vocabulary ==
    <<"thai", "indian", "italian", "vegan", "vegetarian", "halal", "jain",
      "quiet", "romantic", "outdoor", "rooftop", "live music", "cozy">>

IterOrders == {Vocabulary, Reverse(Vocabulary)}

\* next(iter(S)) under an iteration order
NextIter(S, order) ==
    order[CHOOSE i \in DOMAIN order : order[i] \in S /\ \A j \in 1..(i - 1) : order[j] \notin S]

_TIER_ORDER == <<"$", "$$", "$$$", "$$$$">>

NoTag == [type |-> "None"]

FitTag(label, type) == [label |-> label, type |-> type]

\* the pair (points_earned, FitTag | None) of a dimension
Dim(pts, tag) == [pts |-> pts, tag |-> tag]

\* restaurant.meta or {}
MetaOf(restaurant) == DictGet(restaurant, "meta", <<>>)

\* the strings gathered from meta under keys: a list extends, a string appends
RECURSIVE MetaStrings(_, _)
MetaStrings(meta, keys) ==
    IF keys = <<>> THEN <<>>
    ELSE LET val == DictGet(meta, Head(keys), JsonNull)
         IN  (IF val.t = "list" THEN val.v
              ELSE IF val.t = "str" THEN <<val.v>>
              ELSE <<>>) \o MetaStrings(meta, Tail(keys))

\* faulty cuisine score that looks at the affinity before the aversion
CuisinePointsAffinityFirst(cuisine_types, affinity, aversion, order) ==
    IF affinity = {} /\ aversion = {} THEN Dim(0, NoTag)
    ELSE IF cuisine_types \cap affinity # {}
         THEN Dim(IF Cardinality(cuisine_types \cap affinity) >= Cardinality(cuisine_types)
                     THEN 30 ELSE 15,
                  FitTag(<<"Matches your", Title(NextIter(cuisine_types \cap affinity, order)),
                           "preference">>, "cuisine"))
    ELSE IF cuisine_types \cap aversion # {} THEN Dim(0 - 10, NoTag)
    ELSE Dim(0, NoTag)

\* _score_cuisine on the lower-cased sets
CuisinePoints(cuisine_types, affinity, aversion, order) ==
    IF affinity = {} /\ aversion = {} THEN Dim(0, NoTag)
    ELSE IF cuisine_types \cap aversion # {} THEN Dim(0 - 10, NoTag)
    ELSE IF affinity = {} THEN Dim(0, NoTag)
    ELSE IF cuisine_types \cap affinity = {} THEN Dim(0, NoTag)
    ELSE Dim(IF Cardinality(cuisine_types \cap affinity) >= Cardinality(cuisine_types)
                THEN 30 ELSE 15,
             FitTag(<<"Matches your", Title(NextIter(cuisine_types \cap affinity, order)),
                      "preference">>, "cuisine"))

\* FitScorer._score_cuisine
_score_cuisine(restaurant, profile, order) ==
    CuisinePoints(LowerSet(restaurant.cuisine_types), LowerSet(profile.cuisine_affinity),
                  LowerSet(profile.cuisine_aversion), order)

Min(a, b) == IF a <= b THEN a ELSE b

Max(a, b) == IF a >= b THEN a ELSE b

VibePoints(overlap, order) ==
    IF overlap = {} THEN Dim(0, NoTag)
    ELSE Dim(Min(25, Cardinality(overlap) * 5),
             FitTag(<<"Known for", NextIter(overlap, order), "your top vibe tag">>, "vibe"))

\* FitScorer._score_vibe
_score_vibe(restaurant, profile, order) ==
    IF LowerSet(profile.vibe_tags) = {} THEN Dim(0, NoTag)
    ELSE VibePoints(LowerSet(profile.vibe_tags)
                       \cap LowerSet(MetaStrings(MetaOf(restaurant),
                                                 <<"vibes", "vibe_tags", "atmosphere", "tags">>)),
                    order)

\* set(value) of a JSON value: the items of a list, the characters of a string
CharsOf(str) ==
    CASE str \in {"$", "$$", "$$$", "$$$$"} -> {"$"}
      [] OTHER -> {str}

Iterable(val) == val.t \in {"list", "str"}

SetOf(val) == IF val.t = "list" THEN Range(val.v) ELSE CharsOf(val.v)

\* preferred of _score_price, when building it does not raise
Preferred(profile) ==
    IF Range(profile.preferred_price_tiers) # {} THEN Range(profile.preferred_price_tiers)
    ELSE SetOf(DictGet(profile.preferences, "price_comfort", JsonList(<<>>)))

\* set(profile.preferences.get("price_comfort", [])) raises TypeError on a value
\* that is not iterable
ScoreRaises(profile) ==
    /\ Range(profile.preferred_price_tiers) = {}
    /\ ~ Iterable(DictGet(profile.preferences, "price_comfort", JsonList(<<>>)))

\* _TIER_ORDER.index(tier), 0 standing for ValueError
TierIndex(tier) ==
    IF tier \in Range(_TIER_ORDER) THEN CHOOSE i \in DOMAIN _TIER_ORDER : _TIER_ORDER[i] = tier
    ELSE 0

Adjacent(r_idx, p_idx) == p_idx # 0 /\ (r_idx - p_idx = 1 \/ p_idx - r_idx = 1)

PricePoints(tier, preferred) ==
    IF preferred = {} \/ tier = NULL \/ tier = "" THEN Dim(0, NoTag)
    ELSE IF tier \in preferred
         THEN Dim(20, FitTag(<<"Within your", tier, "comfort zone">>, "price"))
    ELSE IF TierIndex(tier) = 0 THEN Dim(0, NoTag)
    ELSE IF \E p_tier \in preferred : Adjacent(TierIndex(tier), TierIndex(p_tier))
         THEN Dim(10, NoTag)
    ELSE Dim(0, NoTag)

\* FitScorer._score_price
_score_price(restaurant, profile) == PricePoints(restaurant.price_tier, Preferred(profile))

\* "vegan" in c, "vegetarian" in c: the cuisine names that contain the word
CuisineHeuristics(cuisine_types) ==
    {d \in {"vegan", "vegetarian"} : \E c \in LowerSet(cuisine_types) : c = d}

DietaryPoints(overlap, order) ==
    IF overlap = {} THEN Dim(0, NoTag)
    ELSE Dim(Min(15, Cardinality(overlap) * 5),
             FitTag(<<Title(NextIter(overlap, order)), "-friendly">>, "dietary"))

\* FitScorer._score_dietary
_score_dietary(restaurant, profile, order) ==
    IF LowerSet(profile.dietary_flags) = {} THEN Dim(0, NoTag)
    ELSE DietaryPoints(
            LowerSet(profile.dietary_flags)
               \cap (LowerSet(MetaStrings(MetaOf(restaurant),
                                          <<"dietary", "dietary_flags", "dietaries">>))
                       \cup CuisineHeuristics(restaurant.cuisine_types)),
            order)

\* FitScorer._score_allergy
_score_allergy(restaurant) ==
    IF restaurant.allergy_safe /\ restaurant.allergy_warnings = <<>>
    THEN Dim(10, FitTag(<<"Safe for your allergy profile">>, "allergy_safe"))
    ELSE IF restaurant.allergy_warnings # <<>>
            /\ {w.severity : w \in Range(restaurant.allergy_warnings)} \ {"intolerance"} = {}
         THEN Dim(5, NoTag)
    ELSE Dim(0, NoTag)

\* total = max(0, min(100, cuisine_pts + vibe_pts + price_pts + dietary_pts + allergy_pts))
Total(dimension_scores) ==
    Max(0, Min(100, dimension_scores[1].pts + dimension_scores[2].pts + dimension_scores[3].pts
                       + dimension_scores[4].pts + dimension_scores[5].pts))

\* the tags that are not None, in the order of sorted_scores, [:4]
TagsOf(sorted_scores) ==
    Take(FilterSeq([i \in DOMAIN sorted_scores |-> sorted_scores[i].tag],
                   {sorted_scores[i].tag : i \in DOMAIN sorted_scores} \ {NoTag}),
         4)

\* dimension_scores.sort(key=lambda x: x[0], reverse=True) and the fit_tags taken from it
FitTags(dimension_scores) ==
    TagsOf(StableSortReverse(dimension_scores,
                             [k \in DOMAIN dimension_scores |-> dimension_scores[k].pts]))

FitResult(dimension_scores) ==
    [score |-> Total(dimension_scores), fit_tags |-> FitTags(dimension_scores)]

\* FitScorer.score, when it does not raise
score(restaurant, profile, order) ==
    FitResult(<< _score_cuisine(restaurant, profile, order),
                 _score_vibe(restaurant, profile, order),
                 _score_price(restaurant, profile),
                 _score_dietary(restaurant, profile, order),
                 _score_allergy(restaurant) >>)

\* --- FitScorer.score on its own ------------------------------------------
IntoleranceWarning == build_warning("dairy", "intolerance", "medium")

AnaphylacticWarning == build_warning("peanuts", "anaphylactic", "medium")

RichMeta ==
    [vibes      |-> JsonList(<<"Quiet", "romantic", "outdoor", "rooftop", "live music", "cozy">>),
     atmosphere |-> JsonStr("quiet"),
     dietary    |-> JsonList(<<"halal", "jain">>),
     dietaries  |-> JsonStr("vegetarian")]

FitRestaurants ==
    { [ToRestaurantResult(InitialRestaurants[1]) EXCEPT
          !.cuisine_types = c, !.price_tier = t, !.allergy_safe = a[1], !.allergy_warnings = a[2]]
         @@ [meta |-> m] :
        c \in { <<>>, <<"Thai">>, <<"thai", "indian">>, <<"vegan", "italian">> },
        t \in { "$$", NULL, "budget" },
        m \in { <<>>, RichMeta },
        a \in { <<TRUE, <<>> >>, <<FALSE, <<IntoleranceWarning>> >>,
                <<FALSE, <<IntoleranceWarning, AnaphylacticWarning>> >>, <<FALSE, <<>> >> } }

FitProfiles ==
    { [preferences |-> p[2], allergies |-> NoAllergies, allergy_flags |-> <<>>,
       dietary_flags |-> d, vibe_tags |-> v, preferred_price_tiers |-> p[1],
       cuisine_affinity |-> c[1], cuisine_aversion |-> c[2]] :
        c \in { << <<>>, <<>> >>, << <<"thai">>, <<>> >>, << <<"indian">>, <<"Thai">> >>,
                << <<"thai", "indian">>, <<>> >> },
        v \in { <<>>, <<"quiet", "romantic", "outdoor", "rooftop", "live music", "cozy">> },
        d \in { <<>>, <<"vegan", "halal", "jain", "vegetarian">> },
        p \in { << <<"$$">>, <<>> >>, << <<"$">>, <<>> >>, << <<>>, <<>> >>,
                << <<>>, [price_comfort |-> JsonList(<<"$$$", "luxury">>)] >>,
                << <<>>, [price_comfort |-> JsonStr("$$")] >>,
                << <<>>, [price_comfort |-> JsonNull] >> } }

\* score(restaurant, profile) is about to be called
InitFit ==
    /\ users = InitialUsers
    /\ restaurants = InitialRestaurants
    /\ settings = [use_local_classifier |-> FALSE, use_local_reranker |-> FALSE]
    /\ _cache_decomp = <<>>
    /\ _cache_search = <<>>
    /\ NoTurn
    /\ _cache_recommendations = <<>>
    /\ today = 1
    /\ clock = 0
    /\ calls \in { << [fn |-> "FitScorer.score", pc |-> "called", restaurant |-> r,
                       profile |-> p, order |-> o] >> :
                      r \in FitRestaurants, p \in FitProfiles, o \in IterOrders }

\* FitScorer.score returns its FitResult
ScoreReturns ==
    /\ calls # <<>>
    /\ calls[1].fn = "FitScorer.score"
    /\ calls[1].pc = "called"
    /\ ~ ScoreRaises(calls[1].profile)
    /\ calls' = << [calls[1] EXCEPT !.pc = "returned"]
                      @@ [result |-> score(calls[1].restaurant, calls[1].profile,
                                           calls[1].order)] >>
    /\ UNCHANGED <<stores, caches, chat_turn, _cache_recommendations, today, clock>>

\* FitScorer.score raises the TypeError of set(None)
ScoreRaisesTypeError ==
    /\ calls # <<>>
    /\ calls[1].fn = "FitScorer.score"
    /\ calls[1].pc = "called"
    /\ ScoreRaises(calls[1].profile)
    /\ calls' = << [calls[1] EXCEPT !.pc = "raised"] @@ [exception |-> "TypeError"] >>
    /\ UNCHANGED <<stores, caches, chat_turn, _cache_recommendations, today, clock>>

NextFit == ScoreReturns \/ ScoreRaisesTypeError

SpecFit == InitFit /\ [][NextFit]_vars

\* ------------------------------------------------------------------------
\* Recommendation feed (services/recommendation_service.py)
\* ------------------------------------------------------------------------
\* faulty key that leaves the user out: one entry a day for everybody
_rec_cache_key_NoUid(u, day) == <<"all", day>>

\* _rec_cache_key: the truncated digest of "uid:date", taken as collision-free
_rec_cache_key(u, day) == <<u, day>>

\* limit = min(limit, 25)
MaxFeedLimit == 25

\* pool_size of _fetch_candidates
PoolSize == 50

\* limit of the feed that prewarm_recommendations asks for
PrewarmLimit == 10

\* UserProfile(): the profile of a uid that has no row
EmptyUserProfile ==
    [preferences |-> <<>>, allergies |-> <<>>, allergy_flags |-> <<>>, dietary_flags |-> <<>>,
     vibe_tags |-> <<>>, preferred_price_tiers |-> <<>>,
     cuisine_affinity |-> <<>>, cuisine_aversion |-> <<>>]

\* list(preferences.get(key, [])) raises TypeError on null
ListRaises(preferences, key) == DictGet(preferences, key, JsonList(<<>>)).t = "null"

\* list(preferences.get(key, [])) of a list
ListOf(preferences, key) == DictGet(preferences, key, JsonList(<<>>)).v

\* _fetch_user_profile raises while it builds the UserProfile
ProfileRaises(row) ==
    ListRaises(row.preferences, "cuisine_affinity") \/ ListRaises(row.preferences, "cuisine_aversion")

\* _fetch_user_profile, given the row of the user
UserProfileOf(row) ==
    [preferences |-> row.preferences, allergies |-> row.allergies,
     allergy_flags |-> row.allergy_flags, dietary_flags |-> row.dietary_flags,
     vibe_tags |-> row.vibe_tags, preferred_price_tiers |-> row.preferred_price_tiers,
     cuisine_affinity |-> ListOf(row.preferences, "cuisine_affinity"),
     cuisine_aversion |-> ListOf(row.preferences, "cuisine_aversion")]

\* _fetch_user_profile, given the users table
_fetch_user_profile(u, table) ==
    IF u \in DOMAIN table THEN UserProfileOf(table[u]) ELSE EmptyUserProfile

\* the RestaurantResult that _fetch_candidates builds from a row
CandidateOf(row) ==
    [id |-> row.id, area |-> row.area, cuisine_types |-> row.cuisine_types,
     price_tier |-> row.price_tier, rating |-> row.rating,
     known_allergens |-> row.known_allergens,
     allergen_confidence |-> IF row.allergen_confidence = NULL THEN "low"
                             ELSE row.allergen_confidence,
     meta |-> DictGet(row, "meta", <<>>),
     allergy_safe |-> TRUE, allergy_warnings |-> <<>>, scores |-> <<>>]

\* ORDER BY rating DESC NULLS LAST LIMIT :limit (rows of equal rating in table order)
TopByRating(rows, n) ==
    Take(StableSortReverse(rows, [i \in DOMAIN rows |-> rows[i].rating]), n)

\* _fetch_candidates, given the restaurants table
_fetch_candidates(profile, rows) ==
    LET excluded == Range(Anaphylactic(profile.allergies))
        kept == FilterSeq(rows, {r \in Range(rows) :
                                    r.is_active /\ Range(r.known_allergens) \cap excluded = {}})
        top == TopByRating(kept, PoolSize)
    IN  [i \in DOMAIN top |-> CandidateOf(top[i])]

\* step 3: (restaurant, score, fit_tags) for every candidate
Scored(candidates, profile, order) ==
    [i \in DOMAIN candidates |->
        [restaurant |-> candidates[i], result |-> score(candidates[i], profile, order)]]

\* step 4: scored.sort(key=score, reverse=True); scored[:limit]
Selected(scored, limit) ==
    Take(StableSortReverse(scored, [i \in DOMAIN scored |-> scored[i].result.score]), limit)

\* a review text, kept as its character and its length: the texts of the model
\* are runs of one character
EmptyText == [char |-> 0, count |-> 0]

\* length of the consolidated review the language model writes for a restaurant
ReviewLength == 200

ModelReview == [char |-> 7, count |-> ReviewLength]

\* the [:160] slices of a consolidated review
ReviewSlice == 160

\* faulty slice that keeps the whole text
SliceNothing(text, n) == text

\* text[:n]
Slice(text, n) == [text EXCEPT !.count = Min(@, n)]

\* annotated_map.get(restaurant.id, restaurant)
AnnotatedGet(checked, restaurant) ==
    IF \E i \in DOMAIN checked : checked[i].id = restaurant.id
    THEN checked[CHOOSE i \in DOMAIN checked :
                    checked[i].id = restaurant.id
                    /\ \A j \in DOMAIN checked : checked[j].id = restaurant.id => j <= i]
    ELSE restaurant

RecommendationItem(rank, annotated, fit, consolidated) ==
    [rank |-> rank, restaurant |-> annotated, fit_score |-> fit.score, fit_tags |-> fit.fit_tags,
     consolidated_review |-> consolidated,
     allergy_summary |-> [is_safe |-> annotated.allergy_safe,
                          warnings |-> annotated.allergy_warnings],
     expanded_detail |-> NULL]

\* step 7: the items built from the selection, the guard's answer and the reviews
Items(selected, checked, review_map) ==
    [i \in DOMAIN selected |->
        RecommendationItem(i, AnnotatedGet(checked, selected[i].restaurant), selected[i].result,
                           Slice(DictGet(review_map, selected[i].restaurant.id, EmptyText),
                                 ReviewSlice))]

RecommendationPayload(u, generated_at, items) ==
    [uid |-> u, generated_at |-> generated_at, recommendations |-> items]

\* RecommendationPayload.model_dump_json and model_validate_json
payload_model_dump_json(payload) ==
    <<"RecommendationPayload", payload.uid, payload.generated_at, payload.recommendations>>

payload_model_validate_json(cached_json) ==
    [uid |-> cached_json[2], generated_at |-> cached_json[3], recommendations |-> cached_json[4]]

\* what the batch request of _batch_fetch_reviews can lead to: a GemmaError (no
\* reviews) or one consolidated review per restaurant
ReviewOutcomes == {"GemmaError", "reviews"}

\* _batch_fetch_reviews
_batch_fetch_reviews(selected, outcome) ==
    IF outcome = "GemmaError" THEN <<>>
    ELSE [id \in {selected[i].restaurant.id : i \in DOMAIN selected} |->
             Slice(ModelReview, ReviewSlice)]

\* allergy_result.safe_restaurants + allergy_result.flagged_restaurants
AnnotatedList(result) == result.safe_restaurants \o result.flagged_restaurants

\* steps 5 and 7 on the selection: AllergyGuard.check, then the items
CheckedItems(selected, profile, review_map) ==
    Items(selected,
          AnnotatedList(check([i \in DOMAIN selected |-> selected[i].restaurant],
                              profile.allergies)),
          review_map)

\* --- the coroutines of the feed, the profiler and the audit write ---------
MaxRequests == 3

MaxChatTurns == 1

MaxMidnights == 1

FeedUids == {"u1"}

\* limit of a feed request
FeedLimits == {2}

\* the users table with the columns the feed and the profiler use
FeedUsers ==
    [u \in {"u1"} |->
        [preferences |-> [dietary |-> JsonList(<<"halal">>)],
         allergies |-> PeanutAnaphylacticDairyIntolerant,
         allergy_flags |-> <<"peanuts", "dairy">>,
         dietary_flags |-> <<"halal">>,
         vibe_tags |-> <<>>,
         preferred_price_tiers |-> <<>>,
         interaction_count |-> 0,
         last_active_at |-> NullNum,
         updated_at |-> 0]]

\* positions at which a coroutine is over
Finished == {"returned", "raised", "swallowed", "failed", "finished"}

\* the coroutines that were over when a new one started
Seen == {j \in DOMAIN calls : calls[j].pc \in Finished}

\* an exception leaves get_recommendations: it reaches the client of a request,
\* and prewarm_recommendations logs it and returns
Escaped(call, callee) ==
    [call EXCEPT !.pc = IF call.caller = "prewarm_recommendations" THEN "swallowed" ELSE "raised",
                 !.trace = Append(call.trace, callee)]
        @@ [exception |-> callee]

\* get_recommendations up to its first await: the key, the cache hit (cache is the
\* feed cache after the refresh bypass, cached_before the entry it held before)
Started(u, limit, refresh, caller, cache, key, seen, cached_before) ==
    LET call == [fn |-> "get_recommendations", caller |-> caller, uid |-> u,
                 limit |-> Min(limit, MaxFeedLimit), refresh |-> refresh, cache_key |-> key,
                 seen |-> seen, cached_before |-> cached_before]
    IN  IF key \in DOMAIN cache
        THEN call @@ [pc |-> "returned", trace |-> <<"_cache_recommendations">>,
                      result |-> payload_model_validate_json(cache[key])]
        ELSE call @@ [pc |-> "fetch_profile", trace |-> <<>>]

\* faulty bypass that keeps the entry
AfterRefreshKeepsEntry(cache, key, refresh) == cache

\* if refresh and cache_key in _cache_recommendations: del _cache_recommendations[cache_key]
AfterRefresh(cache, key, refresh) ==
    IF refresh /\ key \in DOMAIN cache THEN DictDel(cache, key) ELSE cache

\* GET /recommendations/{uid}: get_recommendations runs up to its first await
Request(u, limit, refresh, max) ==
    /\ Cardinality({i \in DOMAIN calls : calls[i].fn = "get_recommendations"
                                          /\ calls[i].caller = "recommendations"}) < max
    /\ calls' = Append(calls, Started(u, limit, refresh, "recommendations",
                                      AfterRefresh(_cache_recommendations,
                                                   _rec_cache_key(u, today), refresh),
                                      _rec_cache_key(u, today), Seen,
                                      DictGet(_cache_recommendations,
                                              _rec_cache_key(u, today), NullList)))
    /\ _cache_recommendations' =
          AfterRefresh(_cache_recommendations, _rec_cache_key(u, today), refresh)
    /\ UNCHANGED <<stores, caches, chat_turn, today, clock>>

\* step 1: the users query answers, or raises
FetchUserProfile(i) ==
    /\ calls[i].fn = "get_recommendations"
    /\ calls[i].pc = "fetch_profile"
    /\ \E ok \in BOOLEAN :
          calls' = [calls EXCEPT ![i] =
              IF ~ ok THEN Escaped(calls[i], "users_query")
              ELSE IF calls[i].uid \in DOMAIN users /\ ProfileRaises(users[calls[i].uid])
                   THEN Escaped(calls[i], "_fetch_user_profile")
              ELSE [calls[i] EXCEPT !.pc = "fetch_candidates",
                                    !.trace = Append(calls[i].trace, "users_query")]
                      @@ [profile |-> _fetch_user_profile(calls[i].uid, users)]]
    /\ UNCHANGED <<stores, caches, chat_turn, _cache_recommendations, today, clock>>

\* steps 3 to 5 on the candidates: scoring, selection and the guard, none of which awaits
ScoredAndChecked(call, candidates) ==
    IF ScoreRaises(call.profile) THEN Escaped(call, "FitScorer.score")
    ELSE IF CheckRaises(call.profile.allergies) THEN Escaped(call, "AllergyGuard.check")
    ELSE [call EXCEPT !.pc = "batch_reviews",
                      !.trace = call.trace \o <<"restaurants_query", "FitScorer.score",
                                                "AllergyGuard.check">>]
            @@ [selected |-> Selected(Scored(candidates, call.profile, Vocabulary), call.limit)]

\* the payload of a user for whom the store has no candidate
EmptyFeed(call, now) ==
    [call EXCEPT !.pc = "returned", !.trace = Append(call.trace, "restaurants_query")]
        @@ [result |-> RecommendationPayload(call.uid, now, <<>>)]

\* step 2: the restaurants query answers, or raises; without candidates the empty
\* payload is stored and returned
FetchCandidates(i) ==
    /\ calls[i].fn = "get_recommendations"
    /\ calls[i].pc = "fetch_candidates"
    /\ \E ok \in BOOLEAN :
          IF ~ ok
          THEN /\ calls' = [calls EXCEPT ![i] = Escaped(calls[i], "restaurants_query")]
               /\ UNCHANGED <<_cache_recommendations, clock>>
          ELSE IF _fetch_candidates(calls[i].profile, restaurants) = <<>>
          THEN /\ calls' = [calls EXCEPT ![i] = EmptyFeed(calls[i], clock + 1)]
               /\ _cache_recommendations' =
                     DictPut(_cache_recommendations, calls[i].cache_key,
                             payload_model_dump_json(
                                 RecommendationPayload(calls[i].uid, clock + 1, <<>>)))
               /\ clock' = clock + 1
          ELSE /\ calls' = [calls EXCEPT ![i] =
                     ScoredAndChecked(calls[i], _fetch_candidates(calls[i].profile, restaurants))]
               /\ UNCHANGED <<_cache_recommendations, clock>>
    /\ UNCHANGED <<stores, caches, chat_turn, today>>

\* the payload assembled once the reviews are in
Assembled(call, outcome, now) ==
    RecommendationPayload(call.uid, now,
        CheckedItems(call.selected, call.profile, _batch_fetch_reviews(call.selected, outcome)))

\* the call once its payload is stored
Returned(call, payload) ==
    [pc |-> "returned", trace |-> Append(call.trace, "call_gemma_json"), result |-> payload]
        @@ call

\* steps 6 and 7: the batch request answers or fails, the payload is assembled,
\* stored under the key computed at the start and returned
BatchFetchReviews(i) ==
    /\ calls[i].fn = "get_recommendations"
    /\ calls[i].pc = "batch_reviews"
    /\ \E outcome \in ReviewOutcomes :
          /\ calls' = [calls EXCEPT ![i] = Returned(calls[i], Assembled(calls[i], outcome, clock + 1))]
          /\ _cache_recommendations' =
                DictPut(_cache_recommendations, calls[i].cache_key,
                        payload_model_dump_json(Assembled(calls[i], outcome, clock + 1)))
    /\ clock' = clock + 1
    /\ UNCHANGED <<stores, caches, chat_turn, today>>

\* midnight passes: date.today() changes
Midnight ==
    /\ today < 1 + MaxMidnights
    /\ today' = today + 1
    /\ UNCHANGED <<stores, caches, chat_turn, _cache_recommendations, clock, calls>>

\* --- the end of a chat turn and its background tasks ----------------------
\* orchestrate yields the result event of a turn of user u and is suspended there
ChatTurnYieldsResult(u) ==
    /\ Cardinality({i \in DOMAIN calls : calls[i].fn = "orchestrate"}) < MaxChatTurns
    /\ calls' = Append(calls, [fn |-> "orchestrate", uid |-> u, pc |-> "yielded",
                               events |-> <<"thinking", "result">>])
    /\ UNCHANGED <<stores, caches, chat_turn, _cache_recommendations, today, clock>>

\* the two tasks that the code after the loop creates for turn i
TasksOf(i, u) ==
    << [fn |-> "_save_interaction", turn |-> i, uid |-> u, pc |-> "created"],
       [fn |-> "_run_profiler", turn |-> i, uid |-> u, pc |-> "created", prewarm |-> "none"] >>

\* the generator is resumed after its last yield: asyncio.create_task twice, then it ends
ChatTurnCreatesTasks(i) ==
    /\ calls[i].fn = "orchestrate"
    /\ calls[i].pc = "yielded"
    /\ calls' = [calls EXCEPT ![i].pc = "finished"] \o TasksOf(i, calls[i].uid)
    /\ UNCHANGED <<stores, caches, chat_turn, _cache_recommendations, today, clock>>

\* faulty task that lets its exception reach the turn that created it
TaskFailedPropagates(cs, i) ==
    [cs EXCEPT ![i].pc = "failed",
               ![cs[i].turn] = [@ EXCEPT !.pc = "raised", !.events = Append(@, "error")]]

\* except Exception: logger.error(...) -- the task ends, nothing else learns of it
TaskFailed(cs, i) == [cs EXCEPT ![i].pc = "failed"]

\* _save_interaction: the INSERT and commit succeed, or anything in it raises
_save_interaction(i) ==
    /\ calls[i].fn = "_save_interaction"
    /\ calls[i].pc = "created"
    /\ \E ok \in BOOLEAN :
          calls' = IF ok THEN [calls EXCEPT ![i].pc = "returned"] ELSE TaskFailed(calls, i)
    /\ UNCHANGED <<stores, caches, chat_turn, _cache_recommendations, today, clock>>

_ALLOWED_PREFERENCE_KEYS ==
    {"dietary", "vibes", "cuisine_affinity", "cuisine_aversion", "price_comfort"}

\* what call_gemma_json can answer to the profiler prompt: a GemmaError, a JSON array,
\* or an object
ProfilerOutputs ==
    { [kind |-> "GemmaError"],
      [kind |-> "list"],
      [kind |-> "dict", items |-> [allergies |-> JsonList(<<"shellfish">>),
                                   allergy_flags |-> JsonList(<<"shellfish">>)]],
      [kind |-> "dict", items |-> [cuisine_affinity |-> JsonList(<<"italian">>),
                                   dietary |-> JsonList(<<"halal", "vegan">>),
                                   allergies |-> JsonList(<<"shellfish">>)]],
      [kind |-> "dict", items |-> [price_comfort |-> JsonNull]] }

\* faulty filter that lets every key through
SanitiseNothing(items) == items

\* extracted = {k: v for k, v in extracted.items() if k in _ALLOWED_PREFERENCE_KEYS}
Sanitise(items) == [k \in (DOMAIN items) \cap _ALLOWED_PREFERENCE_KEYS |-> items[k]]

\* _run_profiler opens its session and update_user_profile awaits the model,
\* which answers with one of the outputs
Extracts(i, outputs) ==
    /\ calls[i].fn = "_run_profiler"
    /\ calls[i].pc = "created"
    /\ \E out \in outputs :
          calls' =
              IF out.kind # "dict" THEN TaskFailed(calls, i)
              ELSE [calls EXCEPT ![i] =
                      [@ EXCEPT !.pc = IF DOMAIN Sanitise(out.items) = {} THEN "bump" ELSE "select"]
                         @@ [extracted |-> Sanitise(out.items)]]
    /\ UNCHANGED <<stores, caches, chat_turn, _cache_recommendations, today, clock>>

\* the extraction over the answers of the background model
ProfilerExtracts(i) == Extracts(i, ProfilerOutputs)

\* the UPDATE of _bump_interaction
Bumped(row, now) ==
    [row EXCEPT !.interaction_count = @ + 1, !.last_active_at = now, !.updated_at = now]

\* _bump_interaction: the UPDATE commits, or raises and is logged there
_bump_interaction(i) ==
    /\ calls[i].fn = "_run_profiler"
    /\ calls[i].pc = "bump"
    /\ \E ok \in BOOLEAN :
          users' = IF ok /\ calls[i].uid \in DOMAIN users
                   THEN [users EXCEPT ![calls[i].uid] = Bumped(@, clock)]
                   ELSE users
    /\ calls' = [calls EXCEPT ![i].pc = "returned"]
    /\ UNCHANGED <<restaurants, settings, caches, chat_turn, _cache_recommendations, today, clock>>

\* existing + value raises TypeError when the stored value is not a list
MergeRaises(current_prefs, extracted) ==
    \E k \in DOMAIN extracted :
        extracted[k].t = "list" /\ DictGet(current_prefs, k, JsonList(<<>>)).t # "list"

\* the deep merge: lists are unioned in order, other values replace
Merged(current_prefs, extracted) ==
    [k \in (DOMAIN current_prefs) \cup (DOMAIN extracted) |->
        IF k \notin DOMAIN extracted THEN current_prefs[k]
        ELSE IF extracted[k].t = "list"
             THEN JsonList(Dedupe(DictGet(current_prefs, k, JsonList(<<>>)).v \o extracted[k].v))
        ELSE extracted[k]]

\* the SELECT of update_user_profile answers (or raises) and the merge is computed
ProfilerSelects(i) ==
    /\ calls[i].fn = "_run_profiler"
    /\ calls[i].pc = "select"
    /\ \E ok \in BOOLEAN :
          calls' =
              IF ~ ok THEN TaskFailed(calls, i)
              ELSE IF calls[i].uid \notin DOMAIN users THEN [calls EXCEPT ![i].pc = "returned"]
              ELSE IF MergeRaises(users[calls[i].uid].preferences, calls[i].extracted)
                   THEN TaskFailed(calls, i)
              ELSE [calls EXCEPT ![i] =
                      [@ EXCEPT !.pc = "update"]
                         @@ [current_prefs |-> Merged(users[calls[i].uid].preferences,
                                                      calls[i].extracted)]]
    /\ UNCHANGED <<stores, caches, chat_turn, _cache_recommendations, today, clock>>

\* the array parameters dietary_flags and vibe_tags must be lists
UpdateRaises(current_prefs) ==
    \/ DictGet(current_prefs, "dietary", JsonList(<<>>)).t # "list"
    \/ DictGet(current_prefs, "vibes", JsonList(<<>>)).t # "list"

\* the UPDATE of update_user_profile
Updated(row, current_prefs, now) ==
    [row EXCEPT !.preferences = current_prefs,
                !.dietary_flags = DictGet(current_prefs, "dietary", JsonList(<<>>)).v,
                !.vibe_tags = DictGet(current_prefs, "vibes", JsonList(<<>>)).v,
                !.interaction_count = @ + 1,
                !.last_active_at = now,
                !.updated_at = now]

\* the UPDATE and the commit succeed and the pre-warm task is created, or one of them raises
ProfilerUpdates(i) ==
    /\ calls[i].fn = "_run_profiler"
    /\ calls[i].pc = "update"
    /\ \E ok \in BOOLEAN :
          IF ok /\ ~ UpdateRaises(calls[i].current_prefs)
          THEN /\ users' = [users EXCEPT ![calls[i].uid] = Updated(@, calls[i].current_prefs, clock)]
               /\ calls' = [calls EXCEPT ![i] =
                               [@ EXCEPT !.pc = "returned", !.prewarm = "scheduled"]
                                  @@ [committed |-> Updated(users[calls[i].uid],
                                                            calls[i].current_prefs, clock),
                                      started_before |-> DOMAIN calls]]
          ELSE /\ users' = users
               /\ calls' = TaskFailed(calls, i)
    /\ UNCHANGED <<restaurants, settings, caches, chat_turn, _cache_recommendations, today, clock>>

\* prewarm_recommendations starts to run: get_recommendations(uid, limit=10, refresh=True)
\* up to its first await
prewarm_recommendations(i) ==
    /\ calls[i].fn = "_run_profiler"
    /\ calls[i].prewarm = "scheduled"
    /\ calls' = Append([calls EXCEPT ![i] = [@ EXCEPT !.prewarm = "started"]
                                                @@ [prewarm_call |-> Len(calls) + 1]],
                       Started(calls[i].uid, PrewarmLimit, TRUE, "prewarm_recommendations",
                               AfterRefresh(_cache_recommendations,
                                            _rec_cache_key(calls[i].uid, today), TRUE),
                               _rec_cache_key(calls[i].uid, today), Seen,
                               DictGet(_cache_recommendations,
                                       _rec_cache_key(calls[i].uid, today), NullList)))
    /\ _cache_recommendations' =
          AfterRefresh(_cache_recommendations, _rec_cache_key(calls[i].uid, today), TRUE)
    /\ UNCHANGED <<stores, caches, chat_turn, today, clock>>

\* --- the feed, the profiler and the audit write together ------------------
InitFeed ==
    /\ users = FeedUsers
    /\ restaurants = InitialRestaurants
    /\ settings = [use_local_classifier |-> FALSE, use_local_reranker |-> FALSE]
    /\ _cache_decomp = <<>>
    /\ _cache_search = <<>>
    /\ NoTurn
    /\ NoFeed

\* the bodies PATCH /users/{uid}/allergies is called with
MilkAnaphylactic ==
    [confirmed |-> <<"milk">>, intolerances |-> <<"dairy">>, severity |-> [milk |-> "anaphylactic"]]

FeedPatchBodies == {MilkAnaphylactic}

\* requests for the feed alone, over midnight
NextFeed ==
    \/ \E u \in FeedUids, limit \in FeedLimits, refresh \in BOOLEAN :
          Request(u, limit, refresh, MaxRequests)
    \/ \E i \in DOMAIN calls : FetchUserProfile(i)
    \/ \E i \in DOMAIN calls : FetchCandidates(i)
    \/ \E i \in DOMAIN calls : BatchFetchReviews(i)
    \/ Midnight

SpecFeed == InitFeed /\ [][NextFeed]_vars

\* the row the INSERT of create_or_get_user writes; the counters take the defaults
\* of the table
Inserted(body, now) ==
    [preferences |-> body.preferences,
     allergies |-> body.allergies,
     allergy_flags |-> IF body.allergy_flags # <<>> THEN body.allergy_flags
                       ELSE _build_allergy_flags(body.allergies),
     dietary_flags |-> body.dietary_flags,
     vibe_tags |-> body.vibe_tags,
     preferred_price_tiers |-> body.preferred_price_tiers,
     interaction_count |-> 0,
     last_active_at |-> NullNum,
     updated_at |-> now]

\* the bodies POST /users/{uid} is called with
CreateBodies ==
    { [preferences |-> [dietary |-> JsonList(<<"vegan">>)],
       allergies |-> MilkAnaphylactic,
       allergy_flags |-> <<>>,
       dietary_flags |-> <<"vegan">>,
       vibe_tags |-> <<>>,
       preferred_price_tiers |-> <<>>] }

NewUids == {"u2"}

\* POST /users/{uid} for a uid without a row (for an existing row it writes nothing)
create_or_get_user(u, body) ==
    /\ u \notin DOMAIN users
    /\ users' = [v \in (DOMAIN users) \cup {u} |-> IF v = u THEN Inserted(body, clock) ELSE users[v]]
    /\ UNCHANGED <<restaurants, settings, caches, chat_turn, feed_state>>

\* requests for the feed while the tasks of a chat turn run
MaxConcurrentRequests == 1

NextBackground ==
    \/ \E u \in FeedUids, limit \in FeedLimits, refresh \in BOOLEAN :
          Request(u, limit, refresh, MaxConcurrentRequests)
    \/ \E i \in DOMAIN calls : FetchUserProfile(i)
    \/ \E i \in DOMAIN calls : FetchCandidates(i)
    \/ \E i \in DOMAIN calls : BatchFetchReviews(i)
    \/ \E u \in FeedUids : ChatTurnYieldsResult(u)
    \/ \E i \in DOMAIN calls : ChatTurnCreatesTasks(i)
    \/ \E i \in DOMAIN calls : _save_interaction(i)
    \/ \E i \in DOMAIN calls : ProfilerExtracts(i)
    \/ \E i \in DOMAIN calls : _bump_interaction(i)
    \/ \E i \in DOMAIN calls : ProfilerSelects(i)
    \/ \E i \in DOMAIN calls : ProfilerUpdates(i)
    \/ \E i \in DOMAIN calls : prewarm_recommendations(i)
    \/ \E u \in FeedUids, body \in FeedPatchBodies : patch_user_allergies(u, body)
    \/ \E u \in NewUids, body \in CreateBodies : create_or_get_user(u, body)

SpecBackground == InitFeed /\ [][NextBackground]_vars

\* ------------------------------------------------------------------------
\* Properties
\* ------------------------------------------------------------------------
LastEntry == log[Len(log)]

\* the running turn is over and the last thing it did was yield a result event
Emitted == pc \in Terminal /\ log # <<>> /\ LastEntry.kind = "result"

EmittedPayload == LastEntry.data

Shown(payload) == payload.restaurants \o payload.flagged_restaurants

SqlFiltersOf(p) == DictGet(ToolInputOf(p), "sql_filters", <<>>)

\* C1: when the user has a confirmed allergen of severity anaphylactic, no restaurant
\* of an emitted payload (restaurants or flagged_restaurants) lists that allergen with
\* allergen_confidence high, whatever filters the planner chose and whatever the
\* planning and search caches hold.
C1_AnaphylacticAllergenNeverShown ==
    Emitted =>
        \A a \in Range(Anaphylactic(allergies)) :
            \A r \in Range(Shown(EmittedPayload)) :
                ~ (a \in Range(r.known_allergens) /\ r.allergen_confidence = "high")

\* restaurants are shown to a user with an anaphylactic allergen that the planner
\* did not ask to exclude
C1_Witness ==
    /\ Emitted
    /\ Shown(EmittedPayload) # <<>>
    /\ \E a \in Range(Anaphylactic(allergies)) :
          a \notin Range(DictGet(SqlFiltersOf(plan), "exclude_allergens", <<>>))

SearchCalls == {"_cache_search.get", "hybrid_search"}

\* C2: in every search_restaurants step, the exclude_allergens list used for the
\* search-cache lookup and passed to the ranker contains every confirmed allergen of
\* severity anaphylactic, for any plan, a cached plan and a plan without the field
\* included.
C2_SearchExcludesAnaphylactic ==
    \A i \in DOMAIN log :
        (log[i].kind = "call" /\ log[i].name \in SearchCalls) =>
            Range(Anaphylactic(allergies))
                \subseteq Range(DictGet(log[i].data, "exclude_allergens", <<>>))

\* a cached plan without exclude_allergens reaches the ranker for a user with an
\* anaphylactic allergen
C2_Witness ==
    /\ Anaphylactic(allergies) # <<>>
    /\ "exclude_allergens" \notin DOMAIN SqlFiltersOf(plan)
    /\ \E i \in DOMAIN log : log[i] = Call("_cache_decomp.get", "hit")
    /\ \E i \in DOMAIN log : log[i].kind = "call" /\ log[i].name = "hybrid_search"

\* C3: when an emitted payload holds at least one restaurant, AllergyGuard.check ran
\* in this turn on the final candidates with this user's stored allergies, after the
\* last search and re-scoring and right before the result event, and every restaurant
\* of the payload is one that check returned.
C3_ShownRestaurantsWereChecked ==
    (Emitted /\ Shown(EmittedPayload) # <<>>) =>
        /\ Len(log) >= 2
        /\ log[Len(log) - 1].kind = "call"
        /\ log[Len(log) - 1].name = "AllergyGuard.check"
        /\ ~ log[Len(log) - 1].data.raised
        /\ log[Len(log) - 1].data.user_allergies = users[uid].allergies
        /\ log[Len(log) - 1].data.restaurants =
              [i \in DOMAIN Take(current_candidates, GuardTopN) |-> current_candidates[i].id]
        /\ Range(Shown(EmittedPayload)) \subseteq Range(log[Len(log) - 1].data.returned)
        /\ \A i \in DOMAIN log :
              log[i].name \in SearchCalls \cup {"scoring"} => i < Len(log) - 1

\* a payload with restaurants that carry allergy warnings is emitted
C3_Witness == Emitted /\ EmittedPayload.has_allergy_warnings

\* C4: when AllergyGuard.check raises, the payload emitted next is a text payload
\* with empty restaurants and flagged_restaurants and has_allergy_warnings false.
C4_GuardFailureEmitsTextOnly ==
    \A i \in DOMAIN log :
        (log[i].name = "AllergyGuard.check" /\ log[i].data.raised) =>
            /\ i < Len(log)
            /\ log[i + 1].kind = "result"
            /\ log[i + 1].data.ui_type = "text"
            /\ log[i + 1].data.restaurants = <<>>
            /\ log[i + 1].data.flagged_restaurants = <<>>
            /\ log[i + 1].data.has_allergy_warnings = FALSE

\* the guard raised on a non-empty candidate list
C4_Witness ==
    /\ pc = "done"
    /\ current_candidates # <<>>
    /\ \E i \in DOMAIN log : log[i].name = "AllergyGuard.check" /\ log[i].data.raised

\* calls outside the language model: the stores and the vector index
ExternalCalls == {"users_query", "hybrid_search"}

RaisedBy(callees) == \E i \in DOMAIN log : log[i].kind = "raise" /\ log[i].name \in callees

\* C5: for any sequence of planner outputs, a turn calls the planner at most five
\* times and, when no store, index or scoring answer fails, it ends by emitting a
\* result event.
C5_PlannerBoundedAndTurnEndsWithResult ==
    /\ planner_calls <= _MAX_ITERATIONS
    /\ (pc \in Terminal /\ ~ RaisedBy(ExternalCalls \cup {"_tool_evaluate_candidates"}))
          => Emitted

\* C6: a turn that is over has emitted thinking events and then exactly one result
\* event, which is the last event.
C6_ExactlyOneResultLast ==
    pc \in Terminal =>
        /\ Emitted
        /\ \A i \in 1..(Len(log) - 1) : log[i].kind # "result"

\* C7: no failure of a store or index query escapes orchestrate as an exception.
C7_NoExternalFailureEscapes == ~ RaisedBy(ExternalCalls)

\* C8: a planner failure, and a plan that is not an object, at any iteration end the
\* turn with the generic fallback text payload; a failed scoring call leaves the
\* candidates unscored and in their order, and they are allergy-checked before the
\* result is emitted.
C8_ModelFailureDegrades ==
    /\ \A i \in DOMAIN log :
          (log[i].name = "planner" /\ log[i].data = "GemmaError") =>
              /\ pc = "returned"
              /\ i + 1 = Len(log)
              /\ log[i + 1] = Result(_FALLBACK_PAYLOAD)
    /\ (pc \in Terminal /\ ~ DictGet(plan, "is_dict", TRUE)) =>
              /\ pc = "returned"
              /\ Emitted
              /\ EmittedPayload = _FALLBACK_PAYLOAD
    /\ \A i \in DOMAIN log :
          (log[i].name = "scoring" /\ log[i].data.outcome = "GemmaError") =>
              /\ pc = "done"
              /\ i + 3 = Len(log)
              /\ log[i + 1] = Thinking("checking_allergies")
              /\ log[i + 2].name = "AllergyGuard.check"
              /\ log[i + 2].data.restaurants = Take(log[i].data.candidates, GuardTopN)
              /\ log[i + 3].kind = "result"
              /\ \A k \in DOMAIN current_candidates : _composite(current_candidates[k]) = 0

\* the scoring call failed in a later iteration and several restaurants were shown
C8_Witness ==
    /\ pc = "done"
    /\ iteration > 0
    /\ Len(Shown(EmittedPayload)) >= 2
    /\ \E i \in DOMAIN log : log[i].name = "scoring" /\ log[i].data.outcome = "GemmaError"

\* C9: a turn that ends without candidates emits a payload of ui_type text with a
\* message, empty restaurants and flagged_restaurants and has_allergy_warnings false;
\* no payload of another ui_type is emitted with both lists empty.
C9_NoCandidatesMeansTextPayload ==
    /\ (Emitted /\ current_candidates = <<>>) =>
          /\ EmittedPayload.ui_type = "text"
          /\ EmittedPayload.message # ""
          /\ EmittedPayload.restaurants = <<>>
          /\ EmittedPayload.flagged_restaurants = <<>>
          /\ EmittedPayload.has_allergy_warnings = FALSE
    /\ (Emitted /\ Shown(EmittedPayload) = <<>>) => EmittedPayload.ui_type = "text"

\* the iteration ceiling is reached without candidates
C9_Witness ==
    /\ Emitted
    /\ pc = "done"
    /\ iteration = _MAX_ITERATIONS
    /\ current_candidates = <<>>

\* the candidate lists an allergen the user has confirmed as anaphylactic, with high confidence
AnaphylacticHigh(candidate, user_allergies) ==
    /\ candidate.allergen_confidence = "high"
    /\ \E a \in Range(Anaphylactic(user_allergies)) : a \in Range(candidate.known_allergens)

SameCandidate(annotated, candidate) ==
    /\ annotated.id = candidate.id
    /\ annotated.known_allergens = candidate.known_allergens
    /\ annotated.allergen_confidence = candidate.allergen_confidence

\* C10: AllergyGuard.check puts a candidate in flagged_restaurants exactly when it has
\* a warning of severity anaphylactic with allergen_confidence high, and in
\* safe_restaurants otherwise; of two candidates that differ only in confidence, high
\* against medium, the first is flagged and the second is not.
C10_FlaggedIffAnaphylacticHigh ==
    pc = "guard_returned" =>
        /\ \A r \in Range(allergy_result.flagged_restaurants) :
              \E w \in Range(r.allergy_warnings) : w.severity = "anaphylactic" /\ w.confidence = "high"
        /\ \A r \in Range(allergy_result.safe_restaurants) :
              ~ \E w \in Range(r.allergy_warnings) : w.severity = "anaphylactic" /\ w.confidence = "high"
        /\ \A c \in Range(current_candidates) :
              /\ (\E r \in Range(allergy_result.flagged_restaurants) : SameCandidate(r, c))
                    <=> AnaphylacticHigh(c, allergies)
              /\ (\E r \in Range(allergy_result.safe_restaurants) : SameCandidate(r, c))
                    <=> ~ AnaphylacticHigh(c, allergies)

\* a high-confidence candidate and its medium-confidence twin went through the guard
C10_Witness ==
    /\ pc = "guard_returned"
    /\ Len(allergy_result.flagged_restaurants) = 1
    /\ Len(allergy_result.safe_restaurants) = 1
    /\ allergy_result.flagged_restaurants[1].known_allergens
          = allergy_result.safe_restaurants[1].known_allergens
    /\ allergy_result.flagged_restaurants[1].allergen_confidence = "high"
    /\ allergy_result.safe_restaurants[1].allergen_confidence = "medium"
    /\ allergy_result.safe_restaurants[1].allergy_warnings # <<>>

\* how dangerous a severity is: intolerance < moderate < severe < anaphylactic
Danger(severity) ==
    CASE severity = "intolerance"  -> 1
      [] severity = "moderate"     -> 2
      [] severity = "severe"       -> 3
      [] severity = "anaphylactic" -> 4

\* the danger of the most dangerous warning of an annotated restaurant
MostDangerous(annotated) ==
    MaxOf({Danger(w.severity) : w \in Range(annotated.allergy_warnings)})

\* C11: in the safe list that AllergyGuard.check returns, every entry with allergy_safe
\* true precedes every entry with allergy_safe false, and the unsafe entries are ordered
\* by their most dangerous warning from least to most severe (intolerance, moderate,
\* severe, anaphylactic): an entry whose worst warning is intolerance comes before one
\* whose worst warning is anaphylactic.
C11_SafeListOrderedByWorstSeverity ==
    pc = "guard_returned" =>
        \A i, j \in DOMAIN allergy_result.safe_restaurants :
            i < j =>
                LET first  == allergy_result.safe_restaurants[i]
                    second == allergy_result.safe_restaurants[j]
                IN  /\ second.allergy_safe => first.allergy_safe
                    /\ (~ first.allergy_safe /\ ~ second.allergy_safe)
                          => MostDangerous(first) <= MostDangerous(second)

\* the restaurant and the user's allergens that the annotation is about
Listed(annotated, user_allergies) ==
    Range(annotated.known_allergens)
        \cap (Range(DictGet(user_allergies, "confirmed", <<>>))
                \cup Range(DictGet(user_allergies, "intolerances", <<>>)))

Checked == allergy_result.safe_restaurants \o allergy_result.flagged_restaurants

\* C12: AllergyGuard annotates a restaurant with exactly one warning per allergen that
\* is both in its known_allergens and among the user's confirmed allergens or
\* intolerances, and sets allergy_safe to true exactly when there is no such allergen.
C12_OneWarningPerSharedAllergen ==
    pc = "guard_returned" =>
        \A r \in Range(Checked) :
            /\ {w.allergen : w \in Range(r.allergy_warnings)} = Listed(r, allergies)
            /\ Len(r.allergy_warnings) = Cardinality(Listed(r, allergies))
            /\ r.allergy_safe <=> (Listed(r, allergies) = {})

\* a restaurant listing two allergens went through the guard for a user who names one
\* of them twice as confirmed and again as an intolerance
C12_Witness ==
    /\ pc = "guard_returned"
    /\ allergies = PeanutConfirmedAndIntolerant
    /\ \E r \in Range(Checked) : Len(r.allergy_warnings) = 2

\* the candidate as it was before the annotation
Unannotated(annotated) ==
    [annotated EXCEPT !.allergy_safe = TRUE, !.allergy_warnings = <<>>]

\* C13: AllergyGuard.check never drops or duplicates a candidate: safe_restaurants
\* followed by flagged_restaurants is a permutation of the input list (every input id
\* appears exactly once), flagged_restaurants keeps the input order, and the input
\* list and its restaurants are left unmodified.
C13_CheckIsAPermutation ==
    /\ [](pc = "guard_returned" =>
            /\ Len(Checked) = Len(current_candidates)
            /\ \A c \in Range(current_candidates) :
                  Cardinality({i \in DOMAIN Checked : Checked[i].id = c.id}) = 1
            /\ \A i \in DOMAIN Checked :
                  Unannotated(Checked[i]) = Unannotated(current_candidates[Checked[i].id])
            /\ \A i, j \in DOMAIN allergy_result.flagged_restaurants :
                  i < j => allergy_result.flagged_restaurants[i].id
                              < allergy_result.flagged_restaurants[j].id)
    /\ [][current_candidates' = current_candidates]_vars

\* two candidates went in, the second came out ahead of the first in the safe list and
\* nothing was flagged
C13_Witness ==
    /\ pc = "guard_returned"
    /\ Len(allergy_result.safe_restaurants) = 2
    /\ allergy_result.safe_restaurants[1].id = 2

\* the finished calls of FitScorer.score
ScoreCalls == {i \in DOMAIN calls : calls[i].fn = "FitScorer.score" /\ calls[i].pc # "called"}

\* the cuisine dimension is an aversion hit and every other dimension gives nothing
AversionAlone(call) ==
    /\ _score_cuisine(call.restaurant, call.profile, call.order).pts = 0 - 10
    /\ _score_vibe(call.restaurant, call.profile, call.order).pts = 0
    /\ _score_price(call.restaurant, call.profile).pts = 0
    /\ _score_dietary(call.restaurant, call.profile, call.order).pts = 0
    /\ _score_allergy(call.restaurant).pts = 0

\* C14: for every restaurant and profile, FitScorer.score returns an integer total
\* between 0 and 100; when the only contributing dimension is a cuisine-aversion hit
\* of -10, the score is 0 and not negative.
C14_ScoreWithinZeroAndHundred ==
    \A i \in ScoreCalls :
        /\ calls[i].pc = "returned"
        /\ calls[i].result.score \in 0..100
        /\ (~ ScoreRaises(calls[i].profile) /\ AversionAlone(calls[i]))
              => calls[i].result.score = 0

\* what holds of the calls that return: the total is within 0..100, and 0 for an
\* aversion hit alone
C14_ReturnedScoreWithinZeroAndHundred ==
    \A i \in ScoreCalls :
        calls[i].pc = "returned" =>
            /\ calls[i].result.score \in 0..100
            /\ AversionAlone(calls[i]) => calls[i].result.score = 0

\* a call returned for an input that hits an aversion and nothing else
C14_WitnessAversionAlone ==
    \E i \in ScoreCalls : calls[i].pc = "returned" /\ AversionAlone(calls[i])

\* a call returned the highest score
C14_WitnessHundred ==
    \E i \in ScoreCalls : calls[i].pc = "returned" /\ calls[i].result.score = 100
                              /\ Len(calls[i].result.fit_tags) = 4

\* what _tool_search_restaurants returned in this pass of the loop
SearchReturns == {i \in DOMAIN log : log[i].kind = "return"}

C15_WitnessEmpty ==
    \E i \in SearchReturns : ~ log[i].cache_hit /\ log[i].data = <<>>

\* the get_recommendations calls a client made that have returned a payload
FeedReturns ==
    {i \in DOMAIN calls : calls[i].fn = "get_recommendations" /\ calls[i].pc = "returned"}

\* call j started after call i had returned, for the same user and day without refresh,
\* and every refresh or pre-warm that started before j was over before i started
Repeats(i, j) ==
    /\ i \in calls[j].seen
    /\ calls[i].cache_key = calls[j].cache_key
    /\ ~ calls[i].refresh
    /\ ~ calls[j].refresh
    /\ \A k \in 1..(j - 1) :
          (calls[k].fn = "get_recommendations" /\ calls[k].refresh) => k \in calls[i].seen

\* C16: two get_recommendations calls for the same user on the same calendar day
\* without refresh, the second made after the first returned and with no refresh or
\* pre-warm in between, return identical payloads (same generated_at and items), and
\* the second performs no store query, scoring, guard run or language-model call.
C16_SameDayFeedIsIdentical ==
    \A i \in FeedReturns, j \in FeedReturns :
        Repeats(i, j) =>
            /\ calls[j].result = calls[i].result
            /\ calls[j].trace = <<"_cache_recommendations">>

\* the repeated call is answered from the cache when no computation overlapped the first
C16_IdenticalWithoutOverlap ==
    \A i \in FeedReturns, j \in FeedReturns :
        (Repeats(i, j) /\ \A k \in 1..(j - 1) : k \in calls[i].seen \/ i \in calls[k].seen \/ k = i) =>
            /\ calls[j].result = calls[i].result
            /\ calls[j].trace = <<"_cache_recommendations">>

\* the get_recommendations calls made with refresh=true
RefreshCalls(cs) == {i \in DOMAIN cs : cs[i].fn = "get_recommendations" /\ cs[i].refresh}

\* C17: get_recommendations with refresh=true never returns the entry that was cached
\* before the call: the call leaves the user's key for the day without an entry when it
\* starts, what it returns was recomputed from the users and restaurants queries and
\* differs from the entry cached before, and when it returns, the cache holds the
\* returned payload under the same key.
C17_RefreshRecomputesAndStores ==
    /\ [](\A i \in RefreshCalls(calls) :
             calls[i].pc = "returned" =>
                /\ calls[i].cached_before # payload_model_dump_json(calls[i].result)
                /\ Len(calls[i].trace) >= 2
                /\ calls[i].trace[1] = "users_query"
                /\ calls[i].trace[2] = "restaurants_query")
    /\ [][\A i \in RefreshCalls(calls') :
             /\ i \notin DOMAIN calls => calls'[i].cache_key \notin DOMAIN _cache_recommendations'
             /\ (i \in DOMAIN calls /\ calls[i].pc # "returned" /\ calls'[i].pc = "returned") =>
                   /\ calls'[i].cache_key \in DOMAIN _cache_recommendations'
                   /\ _cache_recommendations'[calls'[i].cache_key] =
                         payload_model_dump_json(calls'[i].result)]_vars

\* a refresh call returned on a day for which the cache held an entry when it was made
C17_Witness ==
    \E i \in RefreshCalls(calls) :
        /\ calls[i].pc = "returned"
        /\ calls[i].cached_before # NullList
        /\ calls[i].cache_key \in DOMAIN _cache_recommendations
        /\ _cache_recommendations[calls[i].cache_key] = payload_model_dump_json(calls[i].result)

\* the items of the feed of a profile, for a limit and an outcome of the review request
FeedItems(selected, profile, outcome) ==
    CheckedItems(selected, profile, _batch_fetch_reviews(selected, outcome))

FeedOf(profile, limit, outcome) ==
    FeedItems(Selected(Scored(_fetch_candidates(profile, restaurants), profile, Vocabulary), limit),
              profile, outcome)

\* the cached payload is a feed of the row the users table holds for u
HoldsFeedOf(entry, u) ==
    \E limit \in FeedLimits \cup {PrewarmLimit}, outcome \in ReviewOutcomes :
        payload_model_validate_json(entry).recommendations =
            FeedOf(_fetch_user_profile(u, users), limit, outcome)

\* profiler tasks whose update was committed and whose pre-warm has stored its feed
\* today, while the row has not been written since and every other call for the feed
\* started before the update
Prewarmed ==
    {i \in DOMAIN calls :
        /\ calls[i].fn = "_run_profiler"
        /\ calls[i].prewarm = "started"
        /\ calls[calls[i].prewarm_call].pc = "returned"
        /\ calls[calls[i].prewarm_call].cache_key = _rec_cache_key(calls[i].uid, today)
        /\ users[calls[i].uid] = calls[i].committed
        /\ \A r \in DOMAIN calls :
              (calls[r].fn = "get_recommendations" /\ r # calls[i].prewarm_call)
                  => r \in calls[i].started_before}

\* C18: after update_user_profile commits a preference change for user U and the
\* pre-warm it schedules has completed, the feed-cache entry for (U, today) holds a feed
\* computed from the updated profile, under every interleaving with concurrent
\* get_recommendations calls for U that started before the update.
C18_PrewarmedEntryReflectsUpdate ==
    \A i \in Prewarmed :
        /\ _rec_cache_key(calls[i].uid, today) \in DOMAIN _cache_recommendations
        /\ HoldsFeedOf(_cache_recommendations[_rec_cache_key(calls[i].uid, today)], calls[i].uid)

\* the same when every request for the feed was over before the pre-warm started
C18_ReflectsUpdateWithoutOverlap ==
    \A i \in Prewarmed :
        (\A r \in DOMAIN calls :
            (calls[r].fn = "get_recommendations" /\ r # calls[i].prewarm_call)
                => r \in calls[calls[i].prewarm_call].seen) =>
            /\ _rec_cache_key(calls[i].uid, today) \in DOMAIN _cache_recommendations
            /\ HoldsFeedOf(_cache_recommendations[_rec_cache_key(calls[i].uid, today)], calls[i].uid)

\* a pre-warm stored its feed after a committed update
C18_WitnessPrewarmed == Prewarmed # {}

\* the columns of the users table that update_user_profile and _bump_interaction may write
ProfilerColumns ==
    {"preferences", "dietary_flags", "vibe_tags", "interaction_count", "last_active_at",
     "updated_at"}

\* the columns in which two rows differ
ChangedColumns(old, new) == {c \in DOMAIN old : old[c] # new[c]}

\* the keys of preferences that are new or have a new value
MergedKeys(old, new) ==
    {k \in DOMAIN new.preferences :
        k \notin DOMAIN old.preferences \/ old.preferences[k] # new.preferences[k]}

\* a step of a profiler task
ProfilerStep ==
    \E i \in DOMAIN calls : calls[i].fn = "_run_profiler" /\ calls'[i].pc # calls[i].pc

\* what update_user_profile may do to the users table in a step of its task
ProfilerFrame ==
    \A u \in DOMAIN users :
        ProfilerStep =>
            /\ u \in DOMAIN users'
            /\ ChangedColumns(users[u], users'[u]) \subseteq ProfilerColumns
            /\ MergedKeys(users[u], users'[u]) \subseteq _ALLOWED_PREFERENCE_KEYS
            /\ DOMAIN users'[u].preferences \subseteq
                  (DOMAIN users[u].preferences) \cup _ALLOWED_PREFERENCE_KEYS

\* the step writes the allergies or the allergy_flags of u
WritesAllergies(u) ==
    \/ u \notin DOMAIN users
    \/ ChangedColumns(users[u], users'[u]) \cap {"allergies", "allergy_flags"} # {}

C19_WitnessPatch ==
    \E u \in DOMAIN users :
        /\ users[u].allergies = MilkAnaphylactic
        /\ users[u].allergy_flags = <<"dairy">>

\* the chat turns, and the records of the tasks they created
Turns(cs) == {i \in DOMAIN cs : cs[i].fn = "orchestrate"}

Tasks(cs) == {i \in DOMAIN cs : cs[i].fn \in {"_save_interaction", "_run_profiler"}}

\* the last event a turn has emitted is its result
ResultEmitted(turn) == turn.events # <<>> /\ turn.events[Len(turn.events)] = "result"

\* C20: the audit write and the profile update of a chat turn are scheduled only after
\* the result event has been emitted, are not awaited by the response path (the turn is
\* over in the step that creates them, before either has run), and a failure in either
\* or in the pre-warm is swallowed: it changes none of the events already emitted and
\* raises nothing to the caller, so a turn that is over stays as it ended.
C20_BackgroundTasksDetached ==
    /\ [](/\ \A t \in Tasks(calls) :
                /\ calls[t].turn \in Turns(calls)
                /\ calls[calls[t].turn].pc = "finished"
                /\ ResultEmitted(calls[calls[t].turn])
          /\ \A o \in Turns(calls) : calls[o].pc \in {"yielded", "finished"}
          /\ \A i \in DOMAIN calls :
                (calls[i].fn = "get_recommendations" /\ calls[i].caller = "prewarm_recommendations")
                    => calls[i].pc # "raised")
    /\ [][/\ \A t \in Tasks(calls') \ Tasks(calls) :
                /\ calls[calls'[t].turn].pc = "yielded"
                /\ ResultEmitted(calls[calls'[t].turn])
                /\ calls'[calls'[t].turn].pc = "finished"
                /\ calls'[t].pc = "created"
          /\ \A o \in Turns(calls) :
                /\ calls'[o].events = calls[o].events
                /\ calls[o].pc = "finished" => calls'[o] = calls[o]]_vars

\* the turn is over with its two events, its audit write failed and the pre-warm of
\* its profile update failed
C20_Witness ==
    \E o \in Turns(calls), s \in Tasks(calls), p \in Tasks(calls) :
        /\ calls[o].pc = "finished"
        /\ calls[o].events = <<"thinking", "result">>
        /\ calls[s].fn = "_save_interaction" /\ calls[s].turn = o /\ calls[s].pc = "failed"
        /\ calls[p].fn = "_run_profiler" /\ calls[p].turn = o /\ calls[p].prewarm = "started"
        /\ calls[calls[p].prewarm_call].pc = "swallowed"

\* the turn is over and its profile update failed
C20_WitnessProfilerFailed ==
    \E o \in Turns(calls), p \in Tasks(calls) :
        /\ calls[o].pc = "finished"
        /\ calls[p].fn = "_run_profiler" /\ calls[p].turn = o /\ calls[p].pc = "failed"

\* the audit records the running turn has scheduled
AuditTasks == {i \in DOMAIN tasks : tasks[i].task = "_save_interaction"}

\* the allergens named by the warnings of a payload
WarnedAllergens(payload) ==
    UNION { {Shown(payload)[i].allergy_warnings[w].allergen :
                w \in DOMAIN Shown(payload)[i].allergy_warnings} : i \in DOMAIN Shown(payload) }

\* the audit record is the one of the emitted payload
AuditOf(audit, payload) ==
    /\ audit.uid = uid
    /\ audit.message = message
    /\ audit.payload = payload
    /\ audit.restaurant_ids = [i \in DOMAIN Shown(payload) |-> Shown(payload)[i].id]
    /\ Range(audit.allergens_flagged) = WarnedAllergens(payload)
    /\ audit.has_warnings = payload.has_allergy_warnings

\* C21: every chat turn that emits a result event schedules exactly one audit record
\* for it, carrying the user, the query, the emitted payload, the ids of the restaurants
\* shown and the set of allergens appearing in the payload's warnings, on every
\* terminating path, including unknown user, planner failure and malformed plan.
C21_EveryResultIsAudited ==
    Emitted =>
        /\ Cardinality(AuditTasks) = 1
        /\ \A i \in AuditTasks : AuditOf(tasks[i], EmittedPayload)

\* the same for the turns that leave the loop through a break
C21_BreakPathsAreAudited ==
    (Emitted /\ pc = "done") =>
        /\ Cardinality(AuditTasks) = 1
        /\ \A i \in AuditTasks : AuditOf(tasks[i], EmittedPayload)

\* a turn that left the loop through a break showed restaurants with warnings
C21_WitnessBreak ==
    /\ Emitted
    /\ pc = "done"
    /\ WarnedAllergens(EmittedPayload) # {}

\* ------------------------------------------------------------------------
\* hybrid_search called on its own (services/hybrid_search.py)
\* ------------------------------------------------------------------------
\* a filter dictionary extended by one optional key: option is <<>> or <<value>>
WithOption(d, k, option) == IF option = <<>> THEN d ELSE DictPut(d, k, option[1])

\* the sql_filters a caller may pass: every key is optional
SearchFilters ==
    { WithOption(WithOption(WithOption(WithOption(WithOption(<<>>,
          "price_tiers", p), "area", a), "min_rating", m), "cuisine_types", c),
          "exclude_allergens", x) :
        p \in {<<>>, << << <<"str", "$$">> >> >>, << << <<"int", 1>>, <<"str", "cheap">> >> >>,
               << << <<"int", 5>> >> >>},
        a \in {<<>>, <<AreaKoramangala>>, << <<12>> >>},
        m \in {<<>>, <<40>>},
        c \in {<<>>, << <<"indian">> >>, << <<"italian", "thai">> >>},
        x \in {<<>>, << <<"peanuts">> >>} }

\* the semantic queries: the empty text and a one-word query
VectorQueries == {<<>>, <<1>>}

\* the limits a caller passes: the default of 15 and a smaller one
SearchLimits == {2, SearchLimit}

\* the restaurant_id of each review the similarity query answers with, nearest
\* first: a restaurant appears once per matching review
ChromaMetadatas == { <<>>, <<6, 3, 1>>, <<6, 6, 3, 1, 3>> }

\* _chroma_query: the ids in order of first occurrence
_chroma_query(hits) == Dedupe(hits)

\* hybrid_search(db, sql_filters, vector_query, limit) is about to be called
InitSearch ==
    /\ users = InitialUsers
    /\ restaurants = InitialRestaurants
    /\ settings = [use_local_classifier |-> FALSE, use_local_reranker |-> FALSE]
    /\ _cache_decomp = <<>>
    /\ _cache_search = <<>>
    /\ NoTurn
    /\ _cache_recommendations = <<>>
    /\ today = 1
    /\ clock = 0
    /\ calls \in { << [fn |-> "hybrid_search", pc |-> "called", sql_filters |-> f,
                       vector_query |-> q, limit |-> l, trace |-> <<>>,
                       query_embedding |-> NullText, metadatas |-> <<>>,
                       chroma_ranked_ids |-> <<>>] >> :
                      f \in SearchFilters, q \in VectorQueries, l \in SearchLimits }

\* the query embedding is requested whatever the query text is; embed_single
\* answers None when the embedding service fails
EmbedSingle ==
    /\ calls # <<>>
    /\ calls[1].fn = "hybrid_search"
    /\ calls[1].pc = "called"
    /\ \E embedding \in {NullText, <<1>>} :
           calls' = << [calls[1] EXCEPT !.pc = "embedded", !.query_embedding = embedding,
                                        !.trace = Append(@, "embed_single")] >>
    /\ UNCHANGED <<stores, caches, chat_turn, _cache_recommendations, today, clock>>

\* step 1: the similarity query, made only with an embedding, answers a ranking
ChromaQueryReturns ==
    /\ calls # <<>>
    /\ calls[1].fn = "hybrid_search"
    /\ calls[1].pc = "embedded"
    /\ calls[1].query_embedding # NullText
    /\ \E hits \in ChromaMetadatas :
           calls' = << [calls[1] EXCEPT !.pc = "ranked", !.metadatas = hits,
                                        !.chroma_ranked_ids = _chroma_query(hits),
                                        !.trace = Append(@, "_chroma_query")] >>
    /\ UNCHANGED <<stores, caches, chat_turn, _cache_recommendations, today, clock>>

\* step 1: the similarity query fails; nothing in hybrid_search catches it
ChromaQueryRaises ==
    /\ calls # <<>>
    /\ calls[1].fn = "hybrid_search"
    /\ calls[1].pc = "embedded"
    /\ calls[1].query_embedding # NullText
    /\ calls' = << [calls[1] EXCEPT !.pc = "raised", !.trace = Append(@, "_chroma_query")]
                      @@ [exception |-> "_chroma_query"] >>
    /\ UNCHANGED <<stores, caches, chat_turn, _cache_recommendations, today, clock>>

\* hybrid_search is at its restaurants query: after the ranking, or straight
\* after an embedding of None
AtRestaurantsQuery(call) ==
    \/ call.pc = "ranked"
    \/ call.pc = "embedded" /\ call.query_embedding = NullText

\* steps 2 to 4: the restaurants query answers and the results are returned
HybridSearchReturns ==
    /\ calls # <<>>
    /\ calls[1].fn = "hybrid_search"
    /\ AtRestaurantsQuery(calls[1])
    /\ calls' = << [calls[1] EXCEPT !.pc = "returned", !.trace = Append(@, "db.execute")]
                      @@ [result |-> hybrid_search(restaurants, calls[1].sql_filters,
                                                   calls[1].chroma_ranked_ids,
                                                   calls[1].limit)] >>
    /\ UNCHANGED <<stores, caches, chat_turn, _cache_recommendations, today, clock>>

\* step 2: the restaurants query fails
HybridSearchRaises ==
    /\ calls # <<>>
    /\ calls[1].fn = "hybrid_search"
    /\ AtRestaurantsQuery(calls[1])
    /\ calls' = << [calls[1] EXCEPT !.pc = "raised", !.trace = Append(@, "db.execute")]
                      @@ [exception |-> "db.execute"] >>
    /\ UNCHANGED <<stores, caches, chat_turn, _cache_recommendations, today, clock>>

NextSearch ==
    \/ EmbedSingle
    \/ ChromaQueryReturns
    \/ ChromaQueryRaises
    \/ HybridSearchReturns
    \/ HybridSearchRaises

SpecSearch == InitSearch /\ [][NextSearch]_vars

\* ------------------------------------------------------------------------
\* C22: hybrid_search honours its filters
\* ------------------------------------------------------------------------
\* the hybrid_search calls that have returned
SearchResults == {i \in DOMAIN calls : calls[i].fn = "hybrid_search" /\ calls[i].pc = "returned"}

Given(sql_filters, k) == k \in DOMAIN sql_filters /\ sql_filters[k] # <<>>

\* the candidate is in the area, at or above the rating, of a requested
\* cuisine and free of the excluded allergens
MeetsOtherFilters(c, sql_filters) ==
    /\ Given(sql_filters, "area") => AreaLike(c.area, sql_filters["area"])
    /\ "min_rating" \in DOMAIN sql_filters =>
           (c.rating # NullNum /\ c.rating >= sql_filters["min_rating"])
    /\ Given(sql_filters, "cuisine_types") =>
           Range(sql_filters["cuisine_types"]) \cap Range(c.cuisine_types) # {}
    /\ Given(sql_filters, "exclude_allergens") =>
           Range(sql_filters["exclude_allergens"]) \cap Range(c.known_allergens) = {}

\* the price tiers a request names: numbers 1 to 4 stand for "$" to "$$$$"
RequestedTiers(sql_filters) == PriceTiers(sql_filters["price_tiers"])

\* C22: every candidate hybrid_search returns has a price tier in the requested
\* set, lies in the requested area, has at least the requested rating, serves one of
\* the requested cuisines and lists none of the excluded allergens; at most
\* limit candidates are returned
C22_CandidatesSatisfyAllFilters ==
    \A i \in SearchResults :
        /\ Len(calls[i].result) <= calls[i].limit
        /\ \A k \in DOMAIN calls[i].result :
               /\ MeetsOtherFilters(calls[i].result[k], calls[i].sql_filters)
               /\ Given(calls[i].sql_filters, "price_tiers") =>
                      calls[i].result[k].price_tier \in RequestedTiers(calls[i].sql_filters)

\* C22, supporting: the same with the price clause only for requests that name
\* at least one valid tier
C22_FiltersHoldWithAValidTier ==
    \A i \in SearchResults :
        /\ Len(calls[i].result) <= calls[i].limit
        /\ \A k \in DOMAIN calls[i].result :
               /\ MeetsOtherFilters(calls[i].result[k], calls[i].sql_filters)
               /\ (Given(calls[i].sql_filters, "price_tiers")
                      /\ RequestedTiers(calls[i].sql_filters) # {}) =>
                      calls[i].result[k].price_tier \in RequestedTiers(calls[i].sql_filters)

\* C22, supporting: a request no restaurant survives returns the empty list
C22_WitnessEmpty ==
    \E i \in SearchResults :
        /\ calls[i].result = <<>>
        /\ DOMAIN calls[i].sql_filters = {"price_tiers", "area", "min_rating",
                                           "cuisine_types", "exclude_allergens"}

\* C22, supporting: a request with every filter returns a candidate
C22_WitnessAllFilters ==
    \E i \in SearchResults :
        /\ calls[i].result # <<>>
        /\ DOMAIN calls[i].sql_filters = {"price_tiers", "area", "min_rating",
                                           "cuisine_types", "exclude_allergens"}
        /\ RequestedTiers(calls[i].sql_filters) # {}

\* ------------------------------------------------------------------------
\* C23, C24: hybrid_search without a similarity ranking
\* ------------------------------------------------------------------------
RatingOrZero(c) == IF c.rating = NullNum THEN 0 ELSE c.rating

\* the candidates are in order of rating, highest first
RatingDescending(result) ==
    \A k, l \in DOMAIN result : k < l => RatingOrZero(result[k]) >= RatingOrZero(result[l])

\* C23: a hybrid_search call whose similarity query fails does not fail: it
\* goes on to the restaurants query and returns the survivors by rating, highest first
C23_IndexFailureDegradesToRating ==
    \A i \in DOMAIN calls :
        (calls[i].fn = "hybrid_search" /\ calls[i].pc = "raised") =>
            calls[i].exception # "_chroma_query"

\* C23, supporting: when it is the embedding that cannot be built, the call
\* makes no similarity query and returns the survivors by rating, highest first
C23_EmbeddingFailureDegradesToRating ==
    \A i \in SearchResults :
        calls[i].query_embedding = NullText =>
            /\ calls[i].trace = <<"embed_single", "db.execute">>
            /\ RatingDescending(calls[i].result)

\* C23, supporting: such a call returned two candidates or more
C23_WitnessEmbeddingFailed ==
    \E i \in SearchResults : calls[i].query_embedding = NullText /\ Len(calls[i].result) >= 2

\* C24: hybrid_search called with the empty query requests no embedding, makes
\* no similarity query and returns the survivors by rating, highest first
C24_EmptyQuerySkipsVectorStep ==
    \A i \in SearchResults :
        calls[i].vector_query = <<>> =>
            /\ calls[i].trace = <<"db.execute">>
            /\ RatingDescending(calls[i].result)

\* C24, supporting: the order alone, whatever requests were made on the way
C24_EmptyQueryOrdersByRating ==
    \A i \in SearchResults : calls[i].vector_query = <<>> => RatingDescending(calls[i].result)

\* C24, supporting: with the empty query the order is by rating whenever the
\* embedding request answered None
C24_EmptyQueryWithoutEmbedding ==
    \A i \in SearchResults :
        (calls[i].vector_query = <<>> /\ calls[i].query_embedding = NullText) =>
            RatingDescending(calls[i].result)

\* ------------------------------------------------------------------------
\* C25: restaurants listing an anaphylactic allergen with lower confidence
\* ------------------------------------------------------------------------
\* the turn ended on the result of a search whose plan names no allergen to exclude
SearchedWithoutAllergenFilter ==
    /\ Emitted
    /\ plan # <<>>
    /\ plan.is_dict
    /\ "tool" \in DOMAIN plan
    /\ plan.tool = "search_restaurants"
    /\ "exclude_allergens" \notin DOMAIN SqlFiltersOf(plan)
    /\ EmittedPayload.ui_type # "text"

\* the restaurant meets the filters of the plan and is among the first GuardTopN
\* of them, whichever similarity ranking the index answers
InDisplayedSlice(r, sql_filters) ==
    \A ranking \in ChromaRankings :
        \E k \in 1..GuardTopN :
            /\ k <= Len(hybrid_search(restaurants, sql_filters, ranking, SearchLimit))
            /\ hybrid_search(restaurants, sql_filters, ranking, SearchLimit)[k].id = r.id

\* the payload shows the restaurant in restaurants with an anaphylactic warning
\* for the allergen, and not in flagged_restaurants
ShownSafeWithWarning(payload, id, a) ==
    /\ \E k \in DOMAIN payload.restaurants :
           /\ payload.restaurants[k].id = id
           /\ \E w \in DOMAIN payload.restaurants[k].allergy_warnings :
                  /\ payload.restaurants[k].allergy_warnings[w].allergen = a
                  /\ payload.restaurants[k].allergy_warnings[w].severity = "anaphylactic"
    /\ \A k \in DOMAIN payload.flagged_restaurants : payload.flagged_restaurants[k].id # id

\* C25: when a user with an anaphylactic allergen searches without an allergen
\* filter, every restaurant that lists the allergen with confidence medium or low,
\* meets the other filters and ranks within the displayed slice is in the
\* restaurants list of the payload with an anaphylactic warning for the allergen,
\* and is neither flagged nor removed
C25_LowerConfidenceShownWithWarning ==
    SearchedWithoutAllergenFilter =>
        \A a \in Range(Anaphylactic(allergies)) :
            \A i \in DOMAIN restaurants :
                (/\ a \in Range(restaurants[i].known_allergens)
                 /\ restaurants[i].allergen_confidence \in {"medium", "low"}
                 /\ InDisplayedSlice(restaurants[i], SqlFiltersOf(plan))) =>
                    ShownSafeWithWarning(EmittedPayload, restaurants[i].id, a)

\* C25, supporting: in such a turn no restaurant of the payload lists the
\* anaphylactic allergen at all, whatever its confidence
C25_OverrideRemovesEveryConfidence ==
    SearchedWithoutAllergenFilter =>
        \A a \in Range(Anaphylactic(allergies)) :
            \A r \in Range(Shown(EmittedPayload)) : a \notin Range(r.known_allergens)

\* C25, supporting: such a turn of a user with an anaphylactic allergen showed restaurants
C25_WitnessShown ==
    /\ SearchedWithoutAllergenFilter
    /\ Anaphylactic(allergies) # <<>>
    /\ Shown(EmittedPayload) # <<>>

\* ------------------------------------------------------------------------
\* Chat turns and feed requests side by side: the three caches
\* ------------------------------------------------------------------------
\* chat turns and feed requests the combined specification follows
MaxCacheTurns == 1

MaxCacheRequests == 2

CacheAllergies(u) ==
    IF u = "u1" THEN PeanutAnaphylacticDairyIntolerant ELSE DairyUnratedPeanutModerate

\* both users with the columns the chat turn and the feed read
CacheUsers ==
    [u \in {"u1", "u2"} |->
        [FeedUsers["u1"] EXCEPT !.allergies = CacheAllergies(u),
                                !.allergy_flags = _build_allergy_flags(CacheAllergies(u)),
                                !.vibe_tags = InitialUsers[u].vibe_tags,
                                !.dietary_flags = InitialUsers[u].dietary_flags,
                                !.preferred_price_tiers = IF u = "u2" THEN <<"$">> ELSE <<>>]]

\* the user whose chat turn runs beside the feed requests of both users
CacheChatUids == {"u2"}

InitCaches ==
    /\ users = CacheUsers
    /\ restaurants = InitialRestaurants
    /\ settings = [use_local_classifier |-> FALSE, use_local_reranker |-> FALSE]
    /\ _cache_decomp = <<>>
    /\ _cache_search = <<>>
    /\ NoTurn
    /\ NoFeed

\* the local intent classifier is off, so no turn reaches its step
NextCaches ==
    \/ \E u \in CacheChatUids, m \in Messages : turns < MaxCacheTurns /\ StartTurn(u, m)
    \/ FetchContext
    \/ CeilingReached
    \/ PlannerFails
    \/ PlanNotDict
    \/ ToolSearchRestaurants
    \/ ToolEvaluateCandidates
    \/ ToolAskClarification
    \/ ToolFinalResponse
    \/ UnknownTool
    \/ EndTurn
    \/ \E u \in DOMAIN CacheUsers, limit \in FeedLimits :
          Request(u, limit, FALSE, MaxCacheRequests)
    \/ \E i \in DOMAIN calls : FetchUserProfile(i)
    \/ \E i \in DOMAIN calls : FetchCandidates(i)
    \/ \E i \in DOMAIN calls : BatchFetchReviews(i)

SpecCaches == InitCaches /\ [][NextCaches]_vars

\* ------------------------------------------------------------------------
\* C26: guard output and the three caches
\* ------------------------------------------------------------------------
\* the restaurant carries nothing AllergyGuard wrote
Unguarded(r) == r.allergy_safe /\ r.allergy_warnings = <<>>

\* the item's restaurant and allergy summary are what AllergyGuard answers for
\* the allergies of user u
GuardedFor(item, u) ==
    /\ item.restaurant = _annotate(item.restaurant, AllUserAllergens(users[u].allergies))
    /\ item.allergy_summary = [is_safe |-> item.restaurant.allergy_safe,
                               warnings |-> item.restaurant.allergy_warnings]

\* C26: no entry of the planning cache or of the search cache holds guard output;
\* every entry of the feed cache is stored under the user whose allergies its guard
\* output was computed from, and every feed a request returns carries the guard
\* output of the requesting user
C26_GuardOutputStaysWithItsUser ==
    /\ \A k \in DOMAIN _cache_decomp : _cache_decomp[k] \in PlanSet
    /\ \A k \in DOMAIN _cache_search :
           \A n \in DOMAIN _cache_search[k] : Unguarded(_cache_search[k][n])
    /\ \A k \in DOMAIN _cache_recommendations :
           /\ payload_model_validate_json(_cache_recommendations[k]).uid = k[1]
           /\ \A n \in DOMAIN payload_model_validate_json(_cache_recommendations[k]).recommendations :
                  GuardedFor(payload_model_validate_json(_cache_recommendations[k]).recommendations[n],
                             k[1])
    /\ \A i \in FeedReturns :
           /\ calls[i].result.uid = calls[i].uid
           /\ \A n \in DOMAIN calls[i].result.recommendations :
                  GuardedFor(calls[i].result.recommendations[n], calls[i].uid)

\* a feed with warnings was cached for one user when another user asked and got
\* a different feed, while the search cache held restaurants that the guard had
\* warned about in a chat turn
C26_Witness ==
    /\ \E i, j \in FeedReturns :
           /\ i \in calls[j].seen
           /\ calls[i].uid # calls[j].uid
           /\ calls[i].cache_key \in DOMAIN _cache_recommendations
           /\ \E n \in DOMAIN calls[i].result.recommendations :
                  ~ Unguarded(calls[i].result.recommendations[n].restaurant)
           /\ calls[i].result.recommendations # calls[j].result.recommendations
    /\ _cache_decomp # <<>>
    /\ _cache_search # <<>>
    /\ Emitted
    /\ EmittedPayload.has_allergy_warnings

\* ------------------------------------------------------------------------
\* C27: shape of a feed payload
\* ------------------------------------------------------------------------
\* the feeds that get_recommendations built itself (not answered from the cache)
FeedsBuilt ==
    {i \in FeedReturns : calls[i].trace # <<"_cache_recommendations">>}

\* ranks 1..n in list order, fit scores non-increasing and within 0..100, at most
\* four tags, a review of at most 160 characters
WellFormedItems(items) ==
    /\ \A n \in DOMAIN items :
           /\ items[n].rank = n
           /\ items[n].fit_score \in 0..100
           /\ Len(items[n].fit_tags) <= 4
           /\ items[n].consolidated_review.count <= 160
    /\ \A n, m \in DOMAIN items : n < m => items[n].fit_score >= items[m].fit_score

\* C27: in every feed payload get_recommendations builds, the items carry ranks
\* 1..n in list order with fit scores non-increasing, every fit score is within
\* 0..100, every item has at most 4 fit tags and a consolidated review of at most
\* 160 characters, and its allergy summary is the AllergyGuard annotation of its
\* restaurant for the user's allergies
C27_FeedItemsWellFormed ==
    \A i \in FeedsBuilt :
        /\ WellFormedItems(calls[i].result.recommendations)
        /\ \A n \in DOMAIN calls[i].result.recommendations :
               GuardedFor(calls[i].result.recommendations[n], calls[i].uid)

\* a feed was built with two items of different fit scores, a review cut to 160
\* characters and a restaurant the guard warned about
C27_Witness ==
    \E i \in FeedsBuilt :
        /\ Len(calls[i].result.recommendations) = 2
        /\ calls[i].result.recommendations[1].fit_score
               > calls[i].result.recommendations[2].fit_score
        /\ calls[i].result.recommendations[1].consolidated_review.count = 160
        /\ \E n \in DOMAIN calls[i].result.recommendations :
               ~ calls[i].result.recommendations[n].allergy_summary.is_safe

\* ------------------------------------------------------------------------
\* C28: the planner never sees candidates
\* ------------------------------------------------------------------------
\* the turn ended in the final_response branch, in the unknown-tool branch or at
\* the iteration ceiling
EndedWithoutSearch ==
    /\ pc = "done"
    /\ \/ iteration >= _MAX_ITERATIONS
       \/ ToolOf(plan) \notin {"search_restaurants", "ask_clarification"}

C28_WitnessSkipped ==
    /\ pc = "loop"
    /\ iteration >= 2
    /\ \E i \in DOMAIN log : log[i] = Observation("evaluate_candidates", "skipped")

C28_WitnessCeiling == EndedWithoutSearch /\ iteration >= _MAX_ITERATIONS

\* ------------------------------------------------------------------------
\* Feed requests around a change of allergies
\* ------------------------------------------------------------------------
\* feed requests the specification follows
MaxPatchRequests == 2

\* the limit of these requests: enough for a restaurant with dairy to be listed
PatchFeedLimits == {3}

DairyAnaphylactic ==
    [confirmed |-> <<"dairy">>, intolerances |-> <<>>, severity |-> [dairy |-> "anaphylactic"]]

\* the body of the PATCH: dairy, an intolerance so far, becomes anaphylactic
PatchFeedBodies == {DairyAnaphylactic}

NextPatch ==
    \/ \E u \in FeedUids, limit \in PatchFeedLimits, refresh \in BOOLEAN :
          Request(u, limit, refresh, MaxPatchRequests)
    \/ \E i \in DOMAIN calls : FetchUserProfile(i)
    \/ \E i \in DOMAIN calls : FetchCandidates(i)
    \/ \E i \in DOMAIN calls : BatchFetchReviews(i)
    \/ \E u \in FeedUids, body \in PatchFeedBodies : patch_user_allergies(u, body)

SpecPatch == InitFeed /\ [][NextPatch]_vars

\* ------------------------------------------------------------------------
\* C29: the feed after a change of allergies
\* ------------------------------------------------------------------------
\* no restaurant of the payload holds an allergen that user u marks anaphylactic,
\* and every item carries the guard's annotation for u's allergies
ReflectsAllergiesOf(payload, u) ==
    \A n \in DOMAIN payload.recommendations :
        /\ Range(payload.recommendations[n].restaurant.known_allergens)
               \cap Range(Anaphylactic(users[u].allergies)) = {}
        /\ GuardedFor(payload.recommendations[n], u)

\* C29: once PATCH allergies has completed, a feed request made without refresh
\* and answered on the spot returns a feed that reflects the allergies stored at that
\* moment: no restaurant holding an allergen now anaphylactic, every allergy summary
\* computed from the new allergies
C29_FeedReflectsStoredAllergies ==
    [][ \A j \in (DOMAIN calls') \ (DOMAIN calls) :
            (patches > 0 /\ calls'[j].pc = "returned" /\ ~ calls'[j].refresh) =>
                ReflectsAllergiesOf(calls'[j].result, calls'[j].uid) ]_vars

\* C29, supporting: a feed that get_recommendations built from the allergies
\* now stored reflects them
C29_BuiltFeedReflectsFetchedAllergies ==
    \A i \in FeedsBuilt :
        calls[i].profile.allergies = users[calls[i].uid].allergies =>
            ReflectsAllergiesOf(calls[i].result, calls[i].uid)

\* C29, supporting: a feed was built after the PATCH from the new allergies
C29_WitnessBuiltAfterPatch ==
    \E i \in FeedsBuilt :
        /\ patches > 0
        /\ calls[i].profile.allergies = DairyAnaphylactic
        /\ calls[i].result.recommendations # <<>>

\* ------------------------------------------------------------------------
\* Two users, one message: a turn of the first, then turns of the second
\* ------------------------------------------------------------------------
FirstUser == "u1"

SecondUser == "u2"

\* the user of the next turn: the first user opens, the second follows
TurnUser == IF turns = 0 THEN FirstUser ELSE SecondUser

NextShared ==
    \/ \E m \in Messages : StartTurn(TurnUser, m)
    \/ FetchContext
    \/ ClassifyIntent
    \/ CeilingReached
    \/ PlannerFails
    \/ PlanNotDict
    \/ ToolSearchRestaurants
    \/ ToolEvaluateCandidates
    \/ ToolAskClarification
    \/ ToolFinalResponse
    \/ UnknownTool
    \/ EndTurn

SpecShared == Init /\ [][NextShared]_vars

\* ------------------------------------------------------------------------
\* C30: a plan is not shared between users
\* ------------------------------------------------------------------------
\* the searches of the running turn that were made under a plan taken from the
\* planning cache
SearchesUnderCachedPlan ==
    {i \in DOMAIN log : /\ log[i].kind = "call"
                        /\ log[i].name \in SearchCalls
                        /\ \E j \in 1..i : log[j] = Call("_cache_decomp.get", "hit")}

\* C30: the search filters applied in a turn of the second user never come from
\* a plan that the planner produced in the first user's turn, from the first user's
\* allergy context, even when both send the same message with the same vibe and
\* dietary tags and the planning cache is warm
C30_PlanNotSharedAcrossUsers == uid = SecondUser => SearchesUnderCachedPlan = {}

\* C30, supporting: in the first user's turn the planning cache is cold and every
\* search is made under a plan the planner answered in that turn
C30_FirstTurnPlansItself == uid = FirstUser => SearchesUnderCachedPlan = {}

\* C30, supporting: whatever plan is shared, the filters searched with hold the
\* anaphylactic allergens of the user of the turn
C30_SharedPlanKeepsOwnOverride ==
    \A i \in SearchesUnderCachedPlan :
        Range(Anaphylactic(allergies)) \subseteq Range(DictGet(log[i].data, "exclude_allergens", <<>>))

\* ------------------------------------------------------------------------
\* C31: malformed plans and the planning cache
\* ------------------------------------------------------------------------
\* the turn ended with the fallback payload because its plan was not an object
EndedOnMalformedPlan == pc = "returned" /\ plan # <<>> /\ ~ plan.is_dict

\* C31: every plan in the planning cache is an object, and a turn that ends with
\* the fallback payload because its plan is not an object consulted the planner
C31_OnlyWellFormedPlansCached ==
    /\ \A k \in DOMAIN _cache_decomp : _cache_decomp[k].is_dict
    /\ EndedOnMalformedPlan => planner_calls > 0

\* C31, supporting: a plan that is not an object is never dispatched to a tool
C31_MalformedPlanNeverDispatched ==
    (plan # <<>> /\ ~ plan.is_dict) => pc \in {"returned", "idle"}

\* C31, supporting: a turn ended on a cached malformed plan without a planner call
C31_WitnessServedFromCache == EndedOnMalformedPlan /\ planner_calls = 0

\* ------------------------------------------------------------------------
\* C32: what a search result does to the turn
\* ------------------------------------------------------------------------
\* the pass that just ended found nothing and went round the loop
ZeroResults ==
    /\ pc = "loop"
    /\ log # <<>>
    /\ LastEntry = Observation("search_restaurants", "broaden")

\* the searches of the running pass that found at least one restaurant (the
\* count is the first observation a search leaves)
FoundSomething ==
    {i \in DOMAIN log : /\ log[i].kind = "observation"
                        /\ log[i].name = "search_restaurants"
                        /\ (i = 1 \/ log[i - 1].kind # "observation")
                        /\ log[i].data.found > 0}

\* the events of the pass from the search on, by name
SearchEvents ==
    LET shown == FilterSeq(log, {e \in Range(log) :
                     /\ e.kind \in {"thinking", "result"}
                     /\ e.name \in {"searching", "evaluating", "checking_allergies", "result"}})
    IN  [i \in DOMAIN shown |-> shown[i].name]

\* the plans the pass obtained, from the planner or from the planning cache
PlansObtained ==
    {i \in DOMAIN log : log[i].kind = "call" /\ log[i].name \in {"planner", "_cache_decomp.get"}}

\* C32: a search without results records the observation and goes to the next
\* iteration; a search with results ends the turn in the same iteration, with no
\* further planner call, by the events searching, evaluating, checking_allergies
\* and result in that order
C32_SearchOutcomeDecidesTheTurn ==
    /\ ZeroResults => (iteration >= 1 /\ current_candidates = <<>>)
    /\ FoundSomething # {} =>
           /\ pc = "done"
           /\ SearchEvents = <<"searching", "evaluating", "checking_allergies", "result">>
           /\ Cardinality(PlansObtained) = 1

\* C32, supporting: the same for every turn in which the scoring call does not
\* raise
C32_HoldsUnlessScoringRaises ==
    /\ ZeroResults => (iteration >= 1 /\ current_candidates = <<>>)
    /\ (FoundSomething # {} /\ pc # "raised") =>
           /\ pc = "done"
           /\ SearchEvents = <<"searching", "evaluating", "checking_allergies", "result">>
           /\ Cardinality(PlansObtained) = 1

\* C32, supporting: after a search without results the next step of the turn is
\* a planner call, or the text payload of the ceiling when that was the fifth pass
C32_ZeroResultsPlanAgainOrCeiling ==
    [][ ZeroResults =>
            IF iteration < _MAX_ITERATIONS
            THEN log'[1].kind \in {"call", "raised"} /\ log'[1].name = "planner"
            ELSE log' = << Result(TextPayload("could_not_find_broaden")) >> ]_vars

\* C32, supporting: a turn ended on a search with results in a later iteration
C32_WitnessFoundLater == FoundSomething # {} /\ pc = "done" /\ iteration >= 1

\* ------------------------------------------------------------------------
\* C33: the planning cache belongs to the first iteration
\* ------------------------------------------------------------------------
\* a pass of the loop below the ceiling is taken in this step
PassTaken == pc = "loop" /\ iteration < _MAX_ITERATIONS /\ (pc' # pc \/ iteration' # iteration)

\* the keys whose entry this step wrote
DecompWritten ==
    {k \in DOMAIN _cache_decomp' : k \notin DOMAIN _cache_decomp \/ _cache_decomp'[k] # _cache_decomp[k]}

\* C33: the planning cache is read and written only in iteration 0: a hit serves
\* the cached plan without a planner call, a miss calls the planner and stores
\* its answer under the key of the message and the sorted vibe and dietary tags,
\* and the passes of iterations 1 to 4 call the planner and leave the cache alone
C33_PlanningCacheOnlyInFirstIteration ==
    [][ /\ DecompWritten # {} =>
              /\ PassTaken /\ iteration = 0
              /\ decomp_key \notin DOMAIN _cache_decomp
              /\ planner_calls' = planner_calls + 1
              /\ _cache_decomp' = DictPut(_cache_decomp, decomp_key, plan')
              /\ decomp_key = _decomp_cache_key(message, users[uid].vibe_tags,
                                                users[uid].dietary_flags)
        /\ (PassTaken /\ iteration = 0 /\ decomp_key \in DOMAIN _cache_decomp) =>
              /\ planner_calls' = planner_calls
              /\ plan' = _cache_decomp[decomp_key]
              /\ UNCHANGED _cache_decomp
        /\ (PassTaken /\ iteration = 0 /\ decomp_key \notin DOMAIN _cache_decomp) =>
              /\ planner_calls' = planner_calls + 1
              /\ \/ _cache_decomp' = DictPut(_cache_decomp, decomp_key, plan')
                 \/ pc' = "returned" /\ UNCHANGED <<_cache_decomp, plan>>
        /\ (PassTaken /\ iteration >= 1) =>
              /\ planner_calls' = planner_calls + 1
              /\ UNCHANGED _cache_decomp ]_vars

\* C33, supporting: a later turn whose first pass took the cached plan and whose
\* second pass called the planner although the cache held the key
C33_WitnessHitThenPlanner ==
    /\ turns >= 1 /\ pc = "done" /\ iteration = 1 /\ planner_calls = 1
    /\ decomp_key \in DOMAIN _cache_decomp

\* ------------------------------------------------------------------------
\* C34: the order of one restaurant's warnings
\* ------------------------------------------------------------------------
\* every restaurant that check returned, in either list
Annotated == Range(allergy_result.safe_restaurants) \cup Range(allergy_result.flagged_restaurants)

\* C34: the warnings of every restaurant that AllergyGuard.check returns are sorted
\* most severe first (anaphylactic, severe, moderate, intolerance), so a restaurant
\* with an anaphylactic warning shows it first
C34_WarningsMostSevereFirst ==
    pc = "guard_returned" =>
        \A r \in Annotated :
            \A i, j \in DOMAIN r.allergy_warnings :
                i < j => Danger(r.allergy_warnings[i].severity) >= Danger(r.allergy_warnings[j].severity)

\* C34, supporting: what the sort does instead is put the least severe warning first
C34_WarningsLeastSevereFirst ==
    pc = "guard_returned" =>
        \A r \in Annotated :
            \A i, j \in DOMAIN r.allergy_warnings :
                i < j => Danger(r.allergy_warnings[i].severity) <= Danger(r.allergy_warnings[j].severity)

\* C34, supporting: a restaurant returned with an anaphylactic warning behind an
\* intolerance warning
C34_WitnessAnaphylacticLast ==
    /\ pc = "guard_returned"
    /\ \E r \in Annotated :
          /\ Len(r.allergy_warnings) = 2
          /\ r.allergy_warnings[1].severity = "intolerance"
          /\ r.allergy_warnings[2].severity = "anaphylactic"

\* ------------------------------------------------------------------------
\* C35: the order of the search result
\* ------------------------------------------------------------------------
\* the semantic rank of a restaurant: how many other restaurants the similarity
\* result names before its first occurrence; the number of restaurants named
\* when it is not named
SemanticRank(hits, id) ==
    IF id \in Range(hits)
    THEN Cardinality({hits[j] : j \in 1..((CHOOSE i \in DOMAIN hits :
                                  hits[i] = id /\ \A k \in 1..(i - 1) : hits[k] # id) - 1)})
    ELSE Cardinality(Range(hits))

\* restaurant a is ordered before restaurant b, or level with it
NotAfter(hits, a, b) ==
    \/ SemanticRank(hits, a.id) < SemanticRank(hits, b.id)
    \/ /\ SemanticRank(hits, a.id) = SemanticRank(hits, b.id)
       /\ RatingOrZero(a) >= RatingOrZero(b)

\* the active restaurants that pass every filter of the call
Survivors(sql_filters) ==
    {r \in Range(restaurants) : WhereClause(r, sql_filters) /\ ArrayFilters(r, sql_filters)}

\* C35: hybrid_search returns the first `limit` of the surviving restaurants in
\* the order of (semantic rank, rating descending): ranked restaurants by their
\* first occurrence in the similarity result, unranked ones after every ranked
\* one, equal ranks by the higher rating with a missing rating counted as zero
C35_OrderedBySemanticRankThenRating ==
    \A c \in SearchResults :
        LET call == calls[c]
            result == call.result
            shown == {result[k].id : k \in DOMAIN result}
            left == {r \in Survivors(call.sql_filters) : r.id \notin shown}
        IN  /\ Len(result) = Min(call.limit, Cardinality(Survivors(call.sql_filters)))
            /\ Cardinality(shown) = Len(result)
            /\ \A k \in DOMAIN result : \E r \in Survivors(call.sql_filters) : r.id = result[k].id
            /\ \A k, l \in DOMAIN result :
                   k < l => NotAfter(call.metadatas, result[k], result[l])
            /\ \A k \in DOMAIN result : \A r \in left : NotAfter(call.metadatas, result[k], r)

\* C35, supporting: a returned list cut at the limit in which a restaurant named
\* twice by the similarity result comes first, an unranked restaurant follows the
\* ranked ones, and a restaurant without rating was left out
C35_Witness ==
    \E c \in SearchResults :
        /\ calls[c].metadatas = <<6, 6, 3, 1, 3>>
        /\ calls[c].limit = 2
        /\ Len(calls[c].result) = 2
        /\ calls[c].result[1].id \in Range(calls[c].metadatas)
        /\ calls[c].result[2].id \notin Range(calls[c].metadatas)
        /\ \E r \in Survivors(calls[c].sql_filters) :
               r.rating = NullNum /\ \A k \in 1..2 : calls[c].result[k].id # r.id

\* ------------------------------------------------------------------------
\* C36: fit score and allergy summary of a feed item
\* ------------------------------------------------------------------------
\* the item carries the fit tag of type allergy_safe
TaggedAllergySafe(item) == \E k \in DOMAIN item.fit_tags : item.fit_tags[k].type = "allergy_safe"

\* the fit result the scorer gives the restaurant as the item shows it, with
\* the warnings of its allergy summary
FitOfShown(item, profile) == score(item.restaurant, profile, Vocabulary)

\* C36: in every feed item the fit score and the fit tags agree with the allergy
\* summary: the allergy dimension counts 10 only without warnings, 5 with
\* intolerance warnings only and 0 otherwise, and no item with a warning carries
\* the allergy_safe tag
C36_FitAgreesWithAllergySummary ==
    \A i \in FeedsBuilt :
        \A n \in DOMAIN calls[i].result.recommendations :
            LET item == calls[i].result.recommendations[n]
            IN  /\ item.allergy_summary.warnings # <<>> => ~ TaggedAllergySafe(item)
                /\ item.fit_score = FitOfShown(item, calls[i].profile).score
                /\ item.fit_tags = FitOfShown(item, calls[i].profile).fit_tags

\* C36, supporting: what the items carry is the fit result of the restaurant
\* before the guard annotated it, with 10 for the allergy dimension and the
\* allergy_safe tag whatever the summary says
C36_FitIsOfTheUnannotatedCandidate ==
    \A i \in FeedsBuilt :
        \A n \in DOMAIN calls[i].result.recommendations :
            LET item == calls[i].result.recommendations[n]
                candidate == [item.restaurant EXCEPT !.allergy_safe = TRUE, !.allergy_warnings = <<>>]
            IN  /\ item.fit_score = score(candidate, calls[i].profile, Vocabulary).score
                /\ item.fit_tags = score(candidate, calls[i].profile, Vocabulary).fit_tags
                /\ TaggedAllergySafe(item)

\* C36, supporting: a feed item whose summary has a warning and whose tags say
\* allergy_safe
C36_WitnessWarnedAndTaggedSafe ==
    \E i \in FeedsBuilt :
        \E n \in DOMAIN calls[i].result.recommendations :
            /\ calls[i].result.recommendations[n].allergy_summary.warnings # <<>>
            /\ TaggedAllergySafe(calls[i].result.recommendations[n])

\* ------------------------------------------------------------------------
\* C37: the feed and its limit
\* ------------------------------------------------------------------------
MaxLimitRequests == 2

\* the limits the feed is asked with
RequestedLimits == {1, 3}

\* feed requests of one user with different limits
NextLimits ==
    \/ \E u \in FeedUids, limit \in RequestedLimits, refresh \in BOOLEAN :
          Request(u, limit, refresh, MaxLimitRequests)
    \/ \E i \in DOMAIN calls : FetchUserProfile(i)
    \/ \E i \in DOMAIN calls : FetchCandidates(i)
    \/ \E i \in DOMAIN calls : BatchFetchReviews(i)

SpecLimits == InitFeed /\ [][NextLimits]_vars

\* C37: get_recommendations called with limit L returns at most min(L, 25)
\* items, also when it answers from a cache entry that a request with another
\* limit wrote
C37_AtMostLimitItems ==
    \A i \in FeedReturns : Len(calls[i].result.recommendations) <= calls[i].limit

\* C37, supporting: a feed that is built holds at most min(L, 25) items
C37_BuiltFeedAtMostLimitItems ==
    \A i \in FeedsBuilt : Len(calls[i].result.recommendations) <= calls[i].limit

\* C37, supporting: a request with limit 1 answered from the cache with three items
C37_WitnessCachedLongerThanLimit ==
    \E i \in FeedReturns :
        /\ calls[i].trace = <<"_cache_recommendations">>
        /\ calls[i].limit = 1
        /\ Len(calls[i].result.recommendations) = 3

\* ------------------------------------------------------------------------
\* Profile updates: update_user_profile beside PATCH /users/{uid}
\* ------------------------------------------------------------------------
MaxProfileUpdates == 2

MaxPreferencePatches == 1

ProfileUids == {"u1"}

\* bodies of POST /users/{uid}: one that mirrors the flag columns in preferences,
\* one that sends the flags beside preferences that hold a cuisine only
ProfileBodies ==
    { [preferences |-> [dietary |-> JsonList(<<"halal">>), vibes |-> JsonList(<<"romantic">>),
                        cuisine_affinity |-> JsonList(<<"thai">>)],
       allergies |-> NoAllergies, allergy_flags |-> <<>>,
       dietary_flags |-> <<"halal">>, vibe_tags |-> <<"romantic">>,
       preferred_price_tiers |-> <<>>],
      [preferences |-> [cuisine_affinity |-> JsonList(<<"thai">>)],
       allergies |-> NoAllergies, allergy_flags |-> <<>>,
       dietary_flags |-> <<"halal">>, vibe_tags |-> <<"romantic">>,
       preferred_price_tiers |-> <<>>] }

\* answers of the model to the profiler prompt: a failure, nothing that may be
\* kept, a new cuisine as a list, the same as a bare string, and a new vibe
SignalOutputs ==
    { [kind |-> "GemmaError"],
      [kind |-> "dict", items |-> [allergy_flags |-> JsonList(<<"shellfish">>)]],
      [kind |-> "dict", items |-> [cuisine_affinity |-> JsonList(<<"italian">>)]],
      [kind |-> "dict", items |-> [cuisine_affinity |-> JsonStr("italian")]],
      [kind |-> "dict", items |-> [vibes |-> JsonList(<<"cozy">>)]] }

\* bodies of PATCH /users/{uid}
PreferencePatches == { [cuisine_aversion |-> JsonList(<<"indian">>)] }

\* the user exists, created by POST /users/{uid}
InitProfile ==
    /\ users \in { [u \in ProfileUids |-> Inserted(body, 0)] : body \in ProfileBodies }
    /\ restaurants = InitialRestaurants
    /\ settings = [use_local_classifier |-> FALSE, use_local_reranker |-> FALSE]
    /\ _cache_decomp = <<>>
    /\ _cache_search = <<>>
    /\ NoTurn
    /\ NoFeed

\* the end of a chat turn: asyncio.create_task(_run_profiler(...))
ProfilerCreated(u) ==
    /\ Cardinality({i \in DOMAIN calls : calls[i].fn = "_run_profiler"}) < MaxProfileUpdates
    /\ calls' = Append(calls, TasksOf(0, u)[2])
    /\ UNCHANGED <<stores, caches, chat_turn, _cache_recommendations, today, clock>>

\* _deep_merge(base, update) on preferences without nested objects
_deep_merge(base, update) ==
    [k \in (DOMAIN base) \cup (DOMAIN update) |->
        IF k \notin DOMAIN update THEN base[k]
        ELSE IF update[k].t = "list" /\ k \in DOMAIN base /\ base[k].t = "list"
             THEN JsonList(Dedupe(base[k].v \o update[k].v))
        ELSE update[k]]

\* patch_user_preferences up to its SELECT: 404 without a row, else the merge
PatchPreferencesSelects(u, body) ==
    /\ Cardinality({i \in DOMAIN calls : calls[i].fn = "patch_user_preferences"})
          < MaxPreferencePatches
    /\ calls' = Append(calls,
          IF u \notin DOMAIN users
          THEN [fn |-> "patch_user_preferences", uid |-> u, body |-> body, pc |-> "raised"]
          ELSE [fn |-> "patch_user_preferences", uid |-> u, body |-> body, pc |-> "update",
                merged |-> _deep_merge(users[u].preferences, body)])
    /\ UNCHANGED <<stores, caches, chat_turn, _cache_recommendations, today, clock>>

\* patch_user_preferences: the UPDATE and commit, or the rollback and the 500
PatchPreferencesUpdates(i) ==
    /\ calls[i].fn = "patch_user_preferences"
    /\ calls[i].pc = "update"
    /\ \E ok \in BOOLEAN :
          IF ok
          THEN /\ users' = [users EXCEPT ![calls[i].uid] =
                               [@ EXCEPT !.preferences = calls[i].merged, !.updated_at = clock]]
               /\ calls' = [calls EXCEPT ![i].pc = "returned"]
          ELSE /\ users' = users
               /\ calls' = [calls EXCEPT ![i].pc = "raised"]
    /\ UNCHANGED <<restaurants, settings, caches, chat_turn, _cache_recommendations, today, clock>>

NextProfile ==
    \/ \E u \in ProfileUids : ProfilerCreated(u)
    \/ \E i \in DOMAIN calls : Extracts(i, SignalOutputs)
    \/ \E i \in DOMAIN calls : _bump_interaction(i)
    \/ \E i \in DOMAIN calls : ProfilerSelects(i)
    \/ \E i \in DOMAIN calls : ProfilerUpdates(i)
    \/ \E u \in ProfileUids, body \in PreferencePatches : PatchPreferencesSelects(u, body)
    \/ \E i \in DOMAIN calls : PatchPreferencesUpdates(i)

SpecProfile == InitProfile /\ [][NextProfile]_vars

\* ------------------------------------------------------------------------
\* C38: a profile update only adds
\* ------------------------------------------------------------------------
\* update_user_profile of task i commits its UPDATE in this step
ProfileCommitted(i) ==
    /\ calls[i].fn = "_run_profiler"
    /\ calls[i].pc = "update"
    /\ calls'[i].pc = "returned"

\* every entry of the flag columns and of the list-valued preferences of the
\* row before is in the row after
KeepsSignals(before, after) ==
    /\ Range(before.dietary_flags) \subseteq Range(after.dietary_flags)
    /\ Range(before.vibe_tags) \subseteq Range(after.vibe_tags)
    /\ \A k \in DOMAIN before.preferences :
           before.preferences[k].t = "list" =>
               /\ k \in DOMAIN after.preferences
               /\ after.preferences[k].t = "list"
               /\ Range(before.preferences[k].v) \subseteq Range(after.preferences[k].v)

\* C38: a background profile update only adds signals: every entry that was in
\* dietary_flags, vibe_tags and the list-valued preference fields before
\* update_user_profile wrote the row is in them afterwards, whatever was extracted
C38_ProfileUpdateOnlyAdds ==
    [][ \A i \in DOMAIN calls :
            ProfileCommitted(i) => KeepsSignals(users[calls[i].uid], users'[calls[i].uid]) ]_vars

\* the flag columns of the row repeat what its preferences hold
FlagsMirrored(row) ==
    /\ row.dietary_flags = DictGet(row.preferences, "dietary", JsonList(<<>>)).v
    /\ row.vibe_tags = DictGet(row.preferences, "vibes", JsonList(<<>>)).v

\* C38, supporting: an update that is alone, extracts lists only and finds the
\* flag columns mirrored in preferences keeps every entry
C38_LoneListUpdateOnlyAdds ==
    [][ \A i \in DOMAIN calls :
            ( /\ ProfileCommitted(i)
              /\ Len(calls) = 1
              /\ \A k \in DOMAIN calls[i].extracted : calls[i].extracted[k].t = "list"
              /\ FlagsMirrored(users[calls[i].uid]) )
            => KeepsSignals(users[calls[i].uid], users'[calls[i].uid]) ]_vars

\* C38, supporting: an update was committed and the vibe tag the user was
\* created with is gone
C38_WitnessFlagLost ==
    \E i \in DOMAIN calls :
        /\ calls[i].fn = "_run_profiler" /\ calls[i].pc = "returned"
        /\ calls[i].prewarm = "scheduled"
        /\ Len(calls) = 1
        /\ "romantic" \notin Range(users[calls[i].uid].vibe_tags)

\* ------------------------------------------------------------------------
\* C39: concurrent profile updates
\* ------------------------------------------------------------------------
\* the profiler tasks that committed a merge of lists
ListUpdatesCommitted ==
    {i \in DOMAIN calls : /\ calls[i].fn = "_run_profiler"
                          /\ calls[i].pc = "returned"
                          /\ calls[i].prewarm = "scheduled"
                          /\ \A k \in DOMAIN calls[i].extracted : calls[i].extracted[k].t = "list"}

\* the PATCH requests on preferences that committed
PatchesCommitted ==
    {i \in DOMAIN calls : calls[i].fn = "patch_user_preferences" /\ calls[i].pc = "returned"}

\* the profiler tasks that are over and wrote the row, by the merge or the bump
ProfilerWrites ==
    {i \in DOMAIN calls : /\ calls[i].fn = "_run_profiler"
                          /\ calls[i].pc = "returned"
                          /\ "extracted" \in DOMAIN calls[i]}

\* the stored preferences hold every entry of the lists in signals
HoldsSignals(row, signals) ==
    \A k \in DOMAIN signals :
        /\ k \in DOMAIN row.preferences
        /\ row.preferences[k].t = "list"
        /\ Range(signals[k].v) \subseteq Range(row.preferences[k].v)

\* nothing is in flight
Quiescent == \A i \in DOMAIN calls : calls[i].pc \in {"returned", "raised", "failed"}

\* every merge the profiler committed was a merge of lists
OnlyListMerges ==
    \A i \in DOMAIN calls :
        (calls[i].fn = "_run_profiler" /\ calls[i].prewarm = "scheduled")
            => i \in ListUpdatesCommitted

\* C39: profile updates of one user that run together all take effect: once they
\* are over the preferences hold the signals of every committed update, from a
\* chat turn or from PATCH, and interaction_count went up by one per update
C39_ConcurrentUpdatesAllTakeEffect ==
    (Quiescent /\ OnlyListMerges) =>
        /\ \A i \in ListUpdatesCommitted : HoldsSignals(users[calls[i].uid], calls[i].extracted)
        /\ \A i \in PatchesCommitted : HoldsSignals(users[calls[i].uid], calls[i].body)
        /\ \A u \in ProfileUids :
               /\ users[u].interaction_count
                     <= Cardinality({i \in ProfilerWrites : calls[i].uid = u})
               /\ users[u].interaction_count
                     >= Cardinality({i \in ProfilerWrites :
                                       calls[i].uid = u /\ calls[i].prewarm = "scheduled"})

\* C39, supporting: interaction_count never counts more than the updates that
\* ran, and counts every committed merge
C39_InteractionCountPerUpdate ==
    \A u \in ProfileUids :
        /\ users[u].interaction_count <= Cardinality({i \in ProfilerWrites : calls[i].uid = u})
        /\ users[u].interaction_count
              >= Cardinality({i \in ProfilerWrites : calls[i].uid = u /\ calls[i].prewarm = "scheduled"})

\* C39, supporting: two chat turns committed different lists and the stored
\* preferences lack the cuisine of one of them
C39_WitnessLostUpdate ==
    /\ Quiescent
    /\ \E i, j \in ListUpdatesCommitted :
          /\ "cuisine_affinity" \in DOMAIN calls[i].extracted
          /\ "vibes" \in DOMAIN calls[j].extracted
          /\ users["u1"].interaction_count = 2
          /\ "italian" \notin Range(users["u1"].preferences["cuisine_affinity"].v)

\* ------------------------------------------------------------------------
\* C40: the cuisine dimension
\* ------------------------------------------------------------------------
\* the cuisine dimension of a returned score call, and the sets it is computed from
CuisineOf(call) == _score_cuisine(call.restaurant, call.profile, call.order)

Served(call) == LowerSet(call.restaurant.cuisine_types)

Liked(call) == LowerSet(call.profile.cuisine_affinity)

Disliked(call) == LowerSet(call.profile.cuisine_aversion)

\* the points the cuisine dimension should give
CuisineExpected(served, liked, disliked) ==
    IF liked = {} /\ disliked = {} THEN 0
    ELSE IF served \cap disliked # {} THEN 0 - 10
    ELSE IF served \cap liked = {} THEN 0
    ELSE IF served \subseteq liked THEN 30
    ELSE 15

\* C40: the cuisine dimension is 0 when the profile has neither affinity nor
\* aversion, -10 whenever a cuisine of the restaurant is in the aversion set, and
\* otherwise 30 when every cuisine of the restaurant is in the affinity set, 15
\* when some are and 0 when none is; a cuisine tag is produced only for 30 and 15
C40_CuisineDimension ==
    \A i \in ScoreCalls :
        calls[i].pc = "returned" =>
            /\ CuisineOf(calls[i]).pts
                  = CuisineExpected(Served(calls[i]), Liked(calls[i]), Disliked(calls[i]))
            /\ (CuisineOf(calls[i]).tag # NoTag) <=> (CuisineOf(calls[i]).pts \in {15, 30})
            /\ CuisineOf(calls[i]).tag # NoTag => CuisineOf(calls[i]).tag.type = "cuisine"
            /\ \A k \in DOMAIN calls[i].result.fit_tags :
                   calls[i].result.fit_tags[k].type = "cuisine"
                      => /\ CuisineOf(calls[i]).pts \in {15, 30}
                         /\ calls[i].result.fit_tags[k] = CuisineOf(calls[i]).tag

\* C40, supporting: a returned call for a restaurant with a liked and a disliked
\* cuisine, which scores -10 without a cuisine tag
C40_WitnessAversionWins ==
    \E i \in ScoreCalls :
        /\ calls[i].pc = "returned"
        /\ Served(calls[i]) \cap Liked(calls[i]) # {}
        /\ Served(calls[i]) \cap Disliked(calls[i]) # {}
        /\ CuisineOf(calls[i]).pts = 0 - 10
        /\ \A k \in DOMAIN calls[i].result.fit_tags : calls[i].result.fit_tags[k].type # "cuisine"

\* C40, supporting: a returned call whose restaurant matches the affinity in
\* part, which scores 15 and shows the cuisine tag
C40_WitnessPartial ==
    \E i \in ScoreCalls :
        /\ calls[i].pc = "returned"
        /\ CuisineOf(calls[i]).pts = 15
        /\ \E k \in DOMAIN calls[i].result.fit_tags : calls[i].result.fit_tags[k].type = "cuisine"

====
